---------------------------- MODULE Spec2Model ----------------------------
(***************************************************************************)
(* A model of the wfbuddy image engine (crate `ie`): the borrowed pixel    *)
(* view and its crop operators, text extraction over preprocessing         *)
(* candidates, reward-slot detection, reward parsing, selection detection  *)
(* and theme sampling.                                                     *)
(*                                                                         *)
(* The module holds several specifications over one set of variables:      *)
(*   SpecView      the crop / trim operators of Image       (image.rs)     *)
(*   SpecText      one call of Image::get_text, one step per candidate     *)
(*   SpecPipeline  the entry points get_rewards, get_selected and          *)
(*                 Theme::from_options on one capture                      *)
(*   SpecParse     parse_owned_count and the timer digit extraction        *)
(* A specification leaves the variables of the others at their idle value. *)
(***************************************************************************)
EXTENDS Integers, Sequences, FiniteSets, TLC

VARIABLES
    \* ---- SpecView
    img,        \* the OwnedImage the views borrow: [width, height]
    view,       \* the current Image view: [x1, y1, x2, y2, true_width]
    op,         \* the last operator: [name, over], over: a requested offset
                \* or size was larger than the view it was applied to
    panicked,   \* an arithmetic overflow / division by zero was hit
    \* ---- SpecText
    ocr,        \* the recognition engine's result for each candidate
    pc,         \* position inside get_text
    best_text,  \* get_text's local best_text
    best_score, \* get_text's local best_score
    calls,      \* candidates passed to the engine so far, in order
    ret,        \* the value get_text returned
    \* ---- SpecPipeline
    capture,    \* the captured frame: [width, height, paint], the pixel
                \* data given by the colour of each band of columns
    out,        \* the last entry point called and what it returned
    \* ---- SpecParse
    text,       \* a recognised text
    parsed,     \* the last parse: [fn, value]
    \* ---- SpecBuffer
    buf,        \* an OwnedImage: [width, height, len], len = data.len()
    bop,        \* the last buffer operation: [name, panicked]
    trail,      \* the buffers the last two operations were applied to
    \* ---- SpecEffects
    env,        \* the environment variables of the process
    world,      \* what calls did besides returning: [files, env_read, logged]
    \* ---- SpecApp
    clock,      \* Instant::now(), in units of 350 ms
    poll,       \* App::poll, the PollState
    tasks,      \* poll tasks started and not yet handled as a completion
                \* message: [party, relic]
    relic,      \* App::relic: [rewards, selected, last_updated]
    status,     \* App::status
    \* ---- SpecModule
    game,       \* what the game shows: [screen, timer]
    chan,       \* rewards_rs: the captures the watcher sent, oldest first
    cfg,        \* the configuration: [overlay_enabled]
    rm,         \* the RelicReward module
    next_pol,   \* IePol::next_pol
    added,      \* additions to selected_rewards since the reward screen
                \* last appeared or the overlay state was last cleared
    \* ---- SpecPoller
    instant,    \* Instant::now(), in units of 250 ms
    sched,      \* IePol::next_pol, the instant behind the mutex
    wpc,        \* the position of the worker thread in its loop
    cand,       \* the worker's local `candidate`
    deadline,   \* the latest instant a returned delay_till asked for
    polled,     \* the instants at which the worker started a capture
    \* ---- SpecTimed
    poll_delay, \* config.poll_delay_s, in units of 50 ms
    ticked,     \* the Tick of the current instant was delivered
    pending,    \* the instant reward mode was entered, while no relic
                \* poll has been started since
    \* ---- SpecSave
    fs,         \* the two files of a save: [target, tmp], each [v, bytes]
    save,       \* the save in progress: [pc, which, n, prev]
    \* ---- SpecOverlay
    geom,       \* the game window, the overlay size and the settings
    posn        \* what the follow-the-window code did: [call, panicked, px, py]

viewVars == <<img, view, op, panicked>>
textVars == <<ocr, pc, best_text, best_score, calls, ret>>
pipeVars == <<capture, out>>
parseVars == <<text, parsed>>
bufVars == <<buf, bop, trail>>
effVars == <<env, world>>
appVars == <<clock, poll, tasks, relic, status>>
modVars == <<game, chan, cfg, rm, next_pol, added>>
polVars == <<instant, sched, wpc, cand, deadline, polled>>
timedVars == <<poll_delay, ticked, pending>>
saveVars == <<fs, save>>
overlayVars == <<geom, posn>>
vars == <<img, view, op, panicked, ocr, pc, best_text, best_score,
          calls, ret, capture, out, text, parsed, buf, bop, trail,
          env, world,
          clock, poll, tasks, relic, status,
          game, chan, cfg, rm, next_pol, added,
          instant, sched, wpc, cand, deadline, polled,
          poll_delay, ticked, pending,
          fs, save,
          geom, posn>>

----------------------------------------------------------------------------
(* u32 arithmetic.  An overflowing + or - panics in a debug build and wraps *)
(* in a release build; the model marks either outcome as Poison, which     *)
(* every later operation propagates.                                       *)

\* u32::MAX.  TLC's integers end at 2^31 - 1, so the model's word is 31 bits
\* wide: the largest request, and the bound past which an addition
\* overflows, is 2^31 - 1 in place of 2^32 - 1.
U32Max == 2147483647

Poison == -1

\* Option::None of an Option of a number (outside the range of the number)
None == -1

Min(a, b) == IF a <= b THEN a ELSE b

Max(a, b) == IF a >= b THEN a ELSE b

UMin(a, b) == IF a = Poison \/ b = Poison THEN Poison ELSE Min(a, b)

USub(a, b) == IF a = Poison \/ b = Poison \/ a < b THEN Poison ELSE a - b

UAdd(a, b) == IF a = Poison \/ b = Poison \/ a > U32Max - b THEN Poison ELSE a + b

\* (size >> 1) << 1
UEven(a) == IF a = Poison THEN Poison ELSE (a \div 2) * 2

\* x / 2
UHalf(a) == IF a = Poison THEN Poison ELSE a \div 2

\* u32::saturating_sub
SatSub(a, b) == IF a >= b THEN a - b ELSE 0

----------------------------------------------------------------------------
(* Image: the borrowed view and its geometric operators (image.rs).        *)

\* The largest buffer width and height.
MaxW == 2

MaxH == 1

\* Requested offsets and sizes along x and along y: everything up to one
\* past the largest buffer side, and u32::MAX.
RequestsX == (0 .. MaxW + 1) \cup {U32Max}

RequestsY == (0 .. MaxH + 1) \cup {U32Max}

as_image(o) ==
    [x1 |-> 0, y1 |-> 0, x2 |-> o.width, y2 |-> o.height, true_width |-> o.width]

width(v) == USub(v.x2, v.x1)

height(v) == USub(v.y2, v.y1)

trimmed_left(v, w) ==
    LET size == UMin(w, width(v))
    IN  [v EXCEPT !.x2 = UAdd(v.x1, size)]

trimmed_right(v, w) ==
    LET size == UMin(w, width(v))
    IN  [v EXCEPT !.x1 = USub(v.x2, size)]

trimmed_centerh(v, w) ==
    LET size    == UEven(UMin(w, width(v)))
        spacing == UHalf(USub(width(v), size))
    IN  [v EXCEPT !.x1 = UAdd(v.x1, spacing), !.x2 = USub(v.x2, spacing)]

trimmed_top(v, h) ==
    LET size == UMin(h, height(v))
    IN  [v EXCEPT !.y2 = UAdd(v.y1, size)]

trimmed_bottom(v, h) ==
    LET size == UMin(h, height(v))
    IN  [v EXCEPT !.y1 = USub(v.y2, size)]

trimmed_centerv(v, h) ==
    LET size    == UEven(UMin(h, height(v)))
        spacing == UHalf(USub(height(v), size))
    IN  [v EXCEPT !.y1 = UAdd(v.y1, spacing), !.y2 = USub(v.y2, spacing)]

\* sub_image without the clamp of the size to what is left after the offset
sub_image_unclamped(v, x, y, w, h) ==
    LET cx == UMin(x, width(v))
        cy == UMin(y, height(v))
        cw == UMin(w, width(v))
        ch == UMin(h, height(v))
    IN  [v EXCEPT !.x1 = UAdd(v.x1, cx),
                  !.y1 = UAdd(v.y1, cy),
                  !.x2 = UAdd(UAdd(v.x1, cx), cw),
                  !.y2 = UAdd(UAdd(v.y1, cy), ch)]

sub_image(v, x, y, w, h) ==
    LET cx == UMin(x, width(v))
        cy == UMin(y, height(v))
        cw == UMin(w, USub(width(v), cx))
        ch == UMin(h, USub(height(v), cy))
    IN  [v EXCEPT !.x1 = UAdd(v.x1, cx),
                  !.y1 = UAdd(v.y1, cy),
                  !.x2 = UAdd(UAdd(v.x1, cx), cw),
                  !.y2 = UAdd(UAdd(v.y1, cy), ch)]

Poisoned(v) ==
    Poison \in {v.x1, v.y1, v.x2, v.y2, v.true_width}

----------------------------------------------------------------------------
(* SpecView: any sequence of crop operators on a view of one buffer.       *)

NoOp == [name |-> "as_image", over |-> FALSE]

IdleView ==
    /\ img = [width |-> 0, height |-> 0]
    /\ view = as_image(img)
    /\ op = NoOp
    /\ panicked = FALSE

IdleText ==
    /\ ocr = <<>>
    /\ pc = "idle"
    /\ best_text = <<>>
    /\ best_score = 0
    /\ calls = <<>>
    /\ ret = <<>>

IdlePipe ==
    /\ capture = [width |-> 0, height |-> 0]
    /\ out = [call |-> "none", panicked |-> FALSE]

IdleParse ==
    /\ text = <<>>
    /\ parsed = [fn |-> "none"]

IdleBuf ==
    /\ buf = [width |-> 0, height |-> 0, len |-> 0]
    /\ bop = [name |-> "none", panicked |-> FALSE]
    /\ trail = <<>>

IdleEff ==
    /\ env = [WFBUDDY_WRITE_IMAGE |-> "unset", WFBUDDY_DEBUG_OCR |-> "unset"]
    /\ world = [call |-> "none", files |-> {}, env_read |-> {}, logged |-> FALSE]

IdleApp ==
    /\ clock = 0
    /\ poll = [last_party_poll |-> 0, party_in_flight |-> FALSE,
               reward_mode_until |-> None, next_reward_poll |-> 0,
               reward_in_flight |-> FALSE]
    /\ tasks = [party |-> 0, relic |-> 0]
    /\ relic = [rewards |-> "none", selected |-> None, last_updated |-> None]
    /\ status = "none"

IdleMod ==
    /\ game = [screen |-> FALSE, timer |-> 0]
    /\ chan = <<>>
    /\ cfg = [overlay_enabled |-> FALSE]
    /\ rm = [current_rewards |-> <<>>, selected_rewards |-> 0,
             reward_screen_active |-> FALSE, overlay_placement |-> "none",
             last_reward_seen |-> None, next_auto_check |-> 0]
    /\ next_pol = 0
    /\ added = 0

IdlePol ==
    /\ instant = 0
    /\ sched = 0
    /\ wpc = "wait"
    /\ cand = None
    /\ deadline = None
    /\ polled = {}

IdleTimed ==
    /\ poll_delay = 0
    /\ ticked = FALSE
    /\ pending = None

IdleSave ==
    /\ fs = [target |-> [v |-> None, bytes |-> 0], tmp |-> [v |-> None, bytes |-> 0]]
    /\ save = [pc |-> "idle", which |-> "none", n |-> 0, prev |-> [v |-> None, bytes |-> 0]]

IdleOverlay ==
    /\ geom = [x |-> 0, y |-> 0, w |-> 0, h |-> 0, overlay_w |-> 0, overlay_h |-> 0,
               margin_px |-> 0, y_quarters |-> 0, ppp |-> 1]
    /\ posn = [call |-> "none", panicked |-> FALSE, px |-> 0, py |-> 0]

InitView ==
    /\ img \in [width : 0 .. MaxW, height : 0 .. MaxH]
    /\ view = as_image(img)
    /\ op = NoOp
    /\ panicked = FALSE
    /\ IdleText /\ IdlePipe /\ IdleParse /\ IdleBuf /\ IdleEff /\ IdleApp /\ IdleMod /\ IdlePol /\ IdleTimed /\ IdleSave /\ IdleOverlay

\* The operator `name` applied to the current view returned (or panicked
\* while computing) `r`; `over`: it was asked for more than the view has.
Applied(name, over, r) ==
    /\ ~panicked
    /\ op' = [name |-> name, over |-> over]
    /\ panicked' = Poisoned(r)
    /\ view' = IF Poisoned(r) THEN view ELSE r
    /\ UNCHANGED <<img, textVars, pipeVars, parseVars, bufVars, effVars, appVars, modVars, polVars, timedVars, saveVars, overlayVars>>

AsImage ==
    /\ ~panicked
    /\ view' = as_image(img)
    /\ op' = NoOp
    /\ UNCHANGED <<img, panicked, textVars, pipeVars, parseVars, bufVars, effVars, appVars, modVars, polVars, timedVars, saveVars, overlayVars>>

TrimmedLeft ==
    \E n \in RequestsX : Applied("trimmed_left", n > width(view), trimmed_left(view, n))

TrimmedRight ==
    \E n \in RequestsX : Applied("trimmed_right", n > width(view), trimmed_right(view, n))

TrimmedCenterH ==
    \E n \in RequestsX : Applied("trimmed_centerh", n > width(view), trimmed_centerh(view, n))

TrimmedTop ==
    \E n \in RequestsY : Applied("trimmed_top", n > height(view), trimmed_top(view, n))

TrimmedBottom ==
    \E n \in RequestsY : Applied("trimmed_bottom", n > height(view), trimmed_bottom(view, n))

TrimmedCenterV ==
    \E n \in RequestsY : Applied("trimmed_centerv", n > height(view), trimmed_centerv(view, n))

SubImage ==
    \E x, w \in RequestsX, y, h \in RequestsY :
        Applied("sub_image",
                x > width(view) \/ w > width(view) \/ y > height(view) \/ h > height(view),
                sub_image(view, x, y, w, h))

NextView ==
    \/ AsImage
    \/ TrimmedLeft
    \/ TrimmedRight
    \/ TrimmedCenterH
    \/ TrimmedTop
    \/ TrimmedBottom
    \/ TrimmedCenterV
    \/ SubImage

SpecView == InitView /\ [][NextView]_vars

\* x1 <= x2 <= true_width and y1 <= y2 <= height of the buffer
WellFormed(v) ==
    /\ 0 <= v.x1 /\ v.x1 <= v.x2 /\ v.x2 <= v.true_width
    /\ 0 <= v.y1 /\ v.y1 <= v.y2 /\ v.y2 <= img.height
    /\ v.true_width = img.width

\* rectangle a lies inside rectangle b
Inside(a, b) ==
    /\ b.x1 <= a.x1 /\ a.x2 <= b.x2
    /\ b.y1 <= a.y1 /\ a.y2 <= b.y2

\* C1: after any sequence of sub_image / trimmed_* calls starting from
\* as_image, with any requested offset and size (0, larger than the view,
\* u32::MAX), no call has panicked and x1 <= x2 <= true_width,
\* y1 <= y2 <= buffer height; and the view every such call returns lies
\* inside the view it was applied to.
C1_ViewStaysInsideSource ==
    /\ [](~panicked /\ WellFormed(view))
    /\ [][op'.name # "as_image" => Inside(view', view)]_vars

\* sub_image was asked for more than a non-empty view has and returned a
\* smaller, non-empty view.
C1_OversizeSubImage ==
    /\ op.name = "sub_image"
    /\ op.over
    /\ width(view) = 1 /\ height(view) = 1
    /\ view.x1 = 1

\* C11: trimmed_centerh / trimmed_centerv return, for every view and every
\* requested size, a view whose trimmed dimension is even and that lost
\* the same margin on both sides.
C11_CentredTrimIsEven ==
    /\ [][op'.name = "trimmed_centerh" =>
            /\ width(view') % 2 = 0
            /\ view'.x1 - view.x1 = view.x2 - view'.x2]_vars
    /\ [][op'.name = "trimmed_centerv" =>
            /\ height(view') % 2 = 0
            /\ view'.y1 - view.y1 = view.y2 - view'.y2]_vars

----------------------------------------------------------------------------
(* One crop of any view of a buffer, the request kept in op.               *)

\* the views of a buffer: as_image and what sub_image makes of it
Views(o) ==
    {[x1 |-> a, y1 |-> b, x2 |-> c, y2 |-> d, true_width |-> o.width] :
        a \in 0 .. o.width, c \in 0 .. o.width, b \in 0 .. o.height, d \in 0 .. o.height}

InitCrop ==
    /\ img \in [width : 0 .. MaxW, height : 0 .. MaxH]
    /\ view \in {v \in Views(img) : v.x1 <= v.x2 /\ v.y1 <= v.y2}
    /\ op = NoOp
    /\ panicked = FALSE
    /\ IdleText /\ IdlePipe /\ IdleParse /\ IdleBuf /\ IdleEff /\ IdleApp /\ IdleMod /\ IdlePol /\ IdleTimed /\ IdleSave /\ IdleOverlay

\* the operator `name`, asked for offset (x, y) and size (w, h), returned
\* (or panicked while computing) `r`
Cropped(name, x, y, w, h, r) ==
    /\ op = NoOp
    /\ op' = [name |-> name, over |-> w > width(view) \/ h > height(view),
              x |-> x, y |-> y, w |-> w, h |-> h]
    /\ panicked' = Poisoned(r)
    /\ view' = IF Poisoned(r) THEN view ELSE r
    /\ UNCHANGED <<img, textVars, pipeVars, parseVars, bufVars, effVars, appVars, modVars, polVars, timedVars, saveVars, overlayVars>>

CropLeft ==
    \E n \in RequestsX : Cropped("trimmed_left", 0, 0, n, height(view), trimmed_left(view, n))

CropRight ==
    \E n \in RequestsX : Cropped("trimmed_right", 0, 0, n, height(view), trimmed_right(view, n))

CropCenterH ==
    \E n \in RequestsX : Cropped("trimmed_centerh", 0, 0, n, height(view), trimmed_centerh(view, n))

CropTop ==
    \E n \in RequestsY : Cropped("trimmed_top", 0, 0, width(view), n, trimmed_top(view, n))

CropBottom ==
    \E n \in RequestsY : Cropped("trimmed_bottom", 0, 0, width(view), n, trimmed_bottom(view, n))

CropCenterV ==
    \E n \in RequestsY : Cropped("trimmed_centerv", 0, 0, width(view), n, trimmed_centerv(view, n))

CropSubImage ==
    \E x, w \in RequestsX, y, h \in RequestsY :
        Cropped("sub_image", x, y, w, h, sub_image(view, x, y, w, h))

NextCrop ==
    \/ CropLeft
    \/ CropRight
    \/ CropCenterH
    \/ CropTop
    \/ CropBottom
    \/ CropCenterV
    \/ CropSubImage

SpecCrop == InitCrop /\ [][NextCrop]_vars

Horizontal == {"trimmed_left", "trimmed_right", "trimmed_centerh"}

Vertical == {"trimmed_top", "trimmed_bottom", "trimmed_centerv"}

\* C12: every trim returns, along the axis it trims, min(requested size,
\* extent of the view), and sub_image(x, y, w, h) returns width
\* min(w, width - min(x, width)) and height min(h, height - min(y, height)).
C12_ClampsToRequested ==
    [][/\ op'.name \in Horizontal => width(view') = Min(op'.w, width(view))
       /\ op'.name \in Vertical => height(view') = Min(op'.h, height(view))
       /\ op'.name = "sub_image" =>
            /\ width(view') = Min(op'.w, width(view) - Min(op'.x, width(view)))
            /\ height(view') = Min(op'.h, height(view) - Min(op'.y, height(view)))]_vars

----------------------------------------------------------------------------
(* Image::get_text (image.rs).  A text is a sequence of characters; the    *)
(* characters of the model are ASCII, so String::len (bytes) and           *)
(* chars().count() agree.  A confidence is kept in hundredths: 92 is 0.92. *)

Whitespace == {" ", "\n"}

LowerCase ==
    <<"a", "b", "c", "d", "e", "f", "g", "h", "i", "j", "k", "l", "m",
      "n", "o", "p", "q", "r", "s", "t", "u", "v", "w", "x", "y", "z">>

UpperCase ==
    <<"A", "B", "C", "D", "E", "F", "G", "H", "I", "J", "K", "L", "M",
      "N", "O", "P", "Q", "R", "S", "T", "U", "V", "W", "X", "Y", "Z">>

Digits == <<"0", "1", "2", "3", "4", "5", "6", "7", "8", "9">>

Range(f) == {f[i] : i \in DOMAIN f}

\* char::is_ascii_alphabetic
AsciiAlphabetic == Range(LowerCase) \cup Range(UpperCase)

\* char::is_ascii_digit
AsciiDigit == Range(Digits)

\* what score_text counts as allowed: alphanumerics and ' ' - ' . ( ) /
AllowedChar == AsciiAlphabetic \cup AsciiDigit \cup {" ", "-", "'", ".", "(", ")", "/"}

RECURSIVE TrimStart(_)
TrimStart(s) ==
    IF s # <<>> /\ Head(s) \in Whitespace THEN TrimStart(Tail(s)) ELSE s

RECURSIVE TrimEnd(_)
TrimEnd(s) ==
    IF s # <<>> /\ s[Len(s)] \in Whitespace THEN TrimEnd(SubSeq(s, 1, Len(s) - 1)) ELSE s

\* str::trim
Trim(s) == TrimEnd(TrimStart(s))

\* the loop of normalize_text: every run of whitespace becomes one ' '
RECURSIVE Collapse(_, _)
Collapse(s, prev_space) ==
    IF s = <<>> THEN <<>>
    ELSE IF Head(s) \in Whitespace
         THEN (IF prev_space THEN <<>> ELSE <<" ">>) \o Collapse(Tail(s), TRUE)
         ELSE <<Head(s)>> \o Collapse(Tail(s), FALSE)

normalize_text(s) == Trim(Collapse(s, FALSE))

\* String::len
ByteLen(s) == Len(s)

\* i32::MIN / 2, the score of an empty text and the initial best_score
MinScore == -1073741824

CountIn(s, set) == Cardinality({i \in 1 .. Len(s) : s[i] \in set})

score_text(txt, conf) ==
    LET t       == Trim(txt)
        total   == Len(t)
        allowed == CountIn(t, AllowedChar)
        weird   == total - allowed
    IN  IF t = <<>> THEN MinScore
        ELSE allowed * 2 - weird * 4 + conf
             + (IF CountIn(t, AsciiAlphabetic) > 0 THEN 10 ELSE 0)
             - (IF total < 3 THEN 25 ELSE 0)

\* The preprocessing candidates in the order get_text runs them.
Candidates == <<"raw", "bw_strict", "bw_loose", "bw_vloose", "inv", "otsu_bw", "otsu_wb">>

CandidateSet == {Candidates[i] : i \in 1 .. Len(Candidates)}

ThemeCandidates == {"bw_strict", "bw_loose", "bw_vloose"}

Order(c) == CHOOSE i \in 1 .. Len(Candidates) : Candidates[i] = c

\* the candidate after c when nothing is skipped
Following(c) == IF Order(c) = Len(Candidates) THEN "return" ELSE Candidates[Order(c) + 1]

\* `if sc >= best_score`: a later candidate replaces an equal earlier one
ConsiderKeepsLatest(st, c, r) ==
    LET txt == normalize_text(r.text)
        sc  == score_text(txt, r.conf)
    IN  [best_text  |-> IF sc >= st.best_score THEN txt ELSE st.best_text,
         best_score |-> IF sc >= st.best_score THEN sc ELSE st.best_score,
         calls      |-> Append(st.calls, c)]

\* One candidate block: the engine is run on candidate c and answers r;
\* the answer is normalized, scored and kept when it beats the best so far.
Consider(st, c, r) ==
    LET txt == normalize_text(r.text)
        sc  == score_text(txt, r.conf)
    IN  [best_text  |-> IF sc > st.best_score THEN txt ELSE st.best_text,
         best_score |-> IF sc > st.best_score THEN sc ELSE st.best_score,
         calls      |-> Append(st.calls, c)]

\* `if conf >= 0.92 && best_text.len() >= 6 { break; }`, evaluated after the
\* candidate was considered
EarlyExit(st, r) == r.conf >= 92 /\ ByteLen(st.best_text) >= 6

\* Where get_text goes after candidate c answered r: the break of the
\* theme loop leaves the loop only, so the inverted candidate is next.
AfterCandidate(st, c, r) ==
    IF c \in ThemeCandidates /\ EarlyExit(st, r) THEN "inv" ELSE Following(c)

GetTextStart == [best_text |-> <<>>, best_score |-> MinScore, calls |-> <<>>]

\* get_text as a function of the engine's answers (res: candidate -> answer)
RECURSIVE GetTextFrom(_, _, _)
GetTextFrom(c, st, res) ==
    IF c = "return" THEN st.best_text
    ELSE LET st2 == Consider(st, c, res[c])
         IN  GetTextFrom(AfterCandidate(st2, c, res[c]), st2, res)

get_text(res) == GetTextFrom("raw", GetTextStart, res)

----------------------------------------------------------------------------
(* SpecText: one call of get_text against an engine whose answer for each  *)
(* candidate is fixed when the call starts.                                *)

EngineAnswers ==
    { \* the engine found nothing (or failed)
      [text |-> <<>>, conf |-> 0],
      \* confident and long: scores 116
      [text |-> <<"a", "b", " ", " ", "c", "d", "e", "f">>, conf |-> 92],
      \* confident and short: scores 116 as well
      [text |-> <<"a", "b", "c", "d", "e", "\n">>, conf |-> 96],
      \* less confident, longer, one symbol: scores 118
      [text |-> <<"a", "b", "c", "d", "e", "f", "g", "h", "i", "j", "k", "#">>, conf |-> 90] }

InitText ==
    /\ ocr \in [CandidateSet -> EngineAnswers]
    /\ pc = "raw"
    /\ best_text = GetTextStart.best_text
    /\ best_score = GetTextStart.best_score
    /\ calls = GetTextStart.calls
    /\ ret = <<>>
    /\ IdleView /\ IdlePipe /\ IdleParse /\ IdleBuf /\ IdleEff /\ IdleApp /\ IdleMod /\ IdlePol /\ IdleTimed /\ IdleSave /\ IdleOverlay

Locals == [best_text |-> best_text, best_score |-> best_score, calls |-> calls]

\* The block of candidate c runs.
RunCandidate(c) ==
    LET st2 == Consider(Locals, c, ocr[c])
    IN  /\ pc = c
        /\ best_text' = st2.best_text
        /\ best_score' = st2.best_score
        /\ calls' = st2.calls
        /\ pc' = AfterCandidate(st2, c, ocr[c])
        /\ UNCHANGED <<ocr, ret, viewVars, pipeVars, parseVars, bufVars, effVars, appVars, modVars, polVars, timedVars, saveVars, overlayVars>>

RawCandidate == RunCandidate("raw")

ThemeCandidate == \E c \in ThemeCandidates : RunCandidate(c)

InvertedCandidate == RunCandidate("inv")

OtsuCandidate == \E c \in {"otsu_bw", "otsu_wb"} : RunCandidate(c)

ReturnText ==
    /\ pc = "return"
    /\ ret' = best_text
    /\ pc' = "done"
    /\ UNCHANGED <<ocr, best_text, best_score, calls, viewVars, pipeVars, parseVars, bufVars, effVars, appVars, modVars, polVars, timedVars, saveVars, overlayVars>>

NextText ==
    \/ RawCandidate
    \/ ThemeCandidate
    \/ InvertedCandidate
    \/ OtsuCandidate
    \/ ReturnText

SpecText == InitText /\ [][NextText]_vars

Score(c) == score_text(normalize_text(ocr[c].text), ocr[c].conf)

\* the earliest of the highest-scoring candidates of cs
EarliestBest(cs) ==
    CHOOSE c \in cs :
        \A d \in cs : Score(d) < Score(c) \/ (Score(d) = Score(c) /\ Order(c) <= Order(d))

Called == {calls[i] : i \in 1 .. Len(calls)}

\* C4 as stated: get_text returns the normalized text of the earliest
\* highest-scoring candidate over all seven candidates.
C4_BestOfAllCandidates ==
    pc = "done" => ret = normalize_text(ocr[EarliestBest(CandidateSet)].text)

\* C4 as amended: get_text returns the normalized text of the earliest
\* highest-scoring candidate among the candidates it passed to the engine
\* (a theme binarization skipped by the early exit is never scored).
C4_BestOfCalledCandidates ==
    pc = "done" => ret = normalize_text(ocr[EarliestBest(Called)].text)

\* The early exit skipped a theme binarization, two of the candidates that
\* were run tie for the highest score with different texts, and the earlier
\* one was returned.
C4_TieAfterEarlyExit ==
    /\ pc = "done"
    /\ Len(calls) < Len(Candidates)
    /\ \E c, d \in Called :
        /\ Order(c) < Order(d)
        /\ Score(c) = Score(d)
        /\ \A e \in Called : Score(e) <= Score(c)
        /\ normalize_text(ocr[c].text) # normalize_text(ocr[d].text)
        /\ ret = normalize_text(ocr[c].text)

\* a sufficiently confident and sufficiently long answer
Sufficient(r) == r.conf >= 92 /\ ByteLen(normalize_text(r.text)) >= 6

\* C5: once a candidate's answer is sufficiently confident and long, no later
\* candidate is passed to the engine in that call of get_text.
C5_NoCallAfterSufficient ==
    \A i \in 1 .. Len(calls) : Sufficient(ocr[calls[i]]) => i = Len(calls)

----------------------------------------------------------------------------
(* parse_owned_count and the digit extraction of detect_timer              *)
(* (screen/relicreward.rs).                                                *)

\* the case folding of (?i)
ToLower(c) ==
    IF c \in Range(UpperCase)
    THEN LowerCase[CHOOSE i \in DOMAIN UpperCase : UpperCase[i] = c]
    ELSE c

\* \w of the regex: what \b separates from everything else
WordChar == AsciiAlphabetic \cup AsciiDigit \cup {"_"}

\* (?:OWNED|CRAFTED), case folded
Markers == {<<"o", "w", "n", "e", "d">>, <<"c", "r", "a", "f", "t", "e", "d">>}

DigitValue(c) == (CHOOSE i \in DOMAIN Digits : Digits[i] = c) - 1

\* the end (exclusive) of the longest run of characters of `set` from i
RECURSIVE RunEnd(_, _, _)
RunEnd(t, i, set) ==
    IF i <= Len(t) /\ t[i] \in set THEN RunEnd(t, i + 1, set) ELSE i

\* str::parse::<u32> of a non-empty string of digits: None once the value
\* leaves the u32 range
RECURSIVE ParseU32(_, _)
ParseU32(ds, acc) ==
    IF ds = <<>> THEN acc
    ELSE IF acc > (U32Max - DigitValue(Head(ds))) \div 10 THEN None
    ELSE ParseU32(Tail(ds), acc * 10 + DigitValue(Head(ds)))

\* whether a marker word starts at i, after a word boundary
MarkerAt(t, i) ==
    /\ \E m \in Markers :
        /\ i + Len(m) - 1 <= Len(t)
        /\ \A k \in 1 .. Len(m) : ToLower(t[i + k - 1]) = m[k]
    /\ (i = 1 \/ t[i - 1] \notin WordChar)

MarkerEnd(t, i) ==
    i + Len(CHOOSE m \in Markers :
                /\ i + Len(m) - 1 <= Len(t)
                /\ \A k \in 1 .. Len(m) : ToLower(t[i + k - 1]) = m[k])

\* where (\d+) starts when the regex is tried at a marker at i:
\* \s* x? \s* are skipped (the three never compete for a character)
DigitsStart(t, i) ==
    LET a == RunEnd(t, MarkerEnd(t, i), Whitespace)
        b == IF a <= Len(t) /\ ToLower(t[a]) = "x" THEN a + 1 ELSE a
    IN  RunEnd(t, b, Whitespace)

\* the regex matches at i
MatchAt(t, i) ==
    /\ MarkerAt(t, i)
    /\ RunEnd(t, DigitsStart(t, i), AsciiDigit) > DigitsStart(t, i)

\* Regex::captures(text) -> group 1 -> parse::<u32>().ok()
parse_owned_count(t) ==
    IF \E i \in 1 .. Len(t) : MatchAt(t, i)
    THEN LET i == CHOOSE k \in 1 .. Len(t) :
                    MatchAt(t, k) /\ \A l \in 1 .. k - 1 : ~MatchAt(t, l)
             a == DigitsStart(t, i)
         IN  ParseU32(SubSeq(t, a, RunEnd(t, a, AsciiDigit) - 1), 0)
    ELSE None

\* Option::unwrap_or(0)
UnwrapOr0(v) == IF v = None THEN 0 ELSE v

\* text.chars().filter(|c| c.is_ascii_digit()).collect()
RECURSIVE FilterDigits(_)
FilterDigits(t) ==
    IF t = <<>> THEN <<>>
    ELSE (IF Head(t) \in AsciiDigit THEN <<Head(t)>> ELSE <<>>) \o FilterDigits(Tail(t))

\* the last two lines of detect_timer: digits.parse::<u32>().unwrap_or(0)
timer_value(t) ==
    LET digits == FilterDigits(t)
    IN  IF digits = <<>> THEN 0 ELSE UnwrapOr0(ParseU32(digits, 0))

----------------------------------------------------------------------------
(* SpecParse: the two parsers applied to texts as get_text returns them.   *)

\* The longest text, in parts.
MaxParts == 4

\* A text is made of these parts.
Parts ==
    { <<"O", "W", "N", "E", "D">>,
      <<"C", "r", "a", "f", "t", "e", "d">>,
      <<"x">>, <<" ">>, <<"1">>, <<"2">>, <<"a">> }

RECURSIVE Flatten(_)
Flatten(ps) == IF ps = <<>> THEN <<>> ELSE Head(ps) \o Flatten(Tail(ps))

\* get_text returns normalized texts only
Texts ==
    { t \in UNION { {Flatten(ps) : ps \in [1 .. n -> Parts]} : n \in 0 .. MaxParts } :
        normalize_text(t) = t }

InitParse ==
    /\ text \in Texts
    /\ parsed = [fn |-> "none"]
    /\ IdleView /\ IdleText /\ IdlePipe /\ IdleBuf /\ IdleEff /\ IdleApp /\ IdleMod /\ IdlePol /\ IdleTimed /\ IdleSave /\ IdleOverlay

\* parse_reward, from owned_text on
ParseOwned ==
    /\ parsed' = [fn |-> "parse_owned_count", value |-> UnwrapOr0(parse_owned_count(text))]
    /\ UNCHANGED <<text, viewVars, textVars, pipeVars, bufVars, effVars, appVars, modVars, polVars, timedVars, saveVars, overlayVars>>

\* detect_timer, from text on
ParseTimer ==
    /\ parsed' = [fn |-> "detect_timer", value |-> timer_value(text)]
    /\ UNCHANGED <<text, viewVars, textVars, pipeVars, bufVars, effVars, appVars, modVars, polVars, timedVars, saveVars, overlayVars>>

NextParse ==
    \/ ParseOwned
    \/ ParseTimer

SpecParse == InitParse /\ [][NextParse]_vars

\* a marker word after a word boundary, with or without a number
HasMarker(t) == \E i \in 1 .. Len(t) : MarkerAt(t, i)

\* C9: the owned count is N when the text holds a marker followed by a
\* number N (optionally written xN), 1 when it holds a marker and no number
\* follows any marker, and 0 when it holds no marker.
C9_OwnedCount ==
    parsed.fn = "parse_owned_count" =>
        parsed.value =
            IF \E i \in 1 .. Len(text) : MatchAt(text, i)
            THEN LET i == CHOOSE k \in 1 .. Len(text) :
                            MatchAt(text, k) /\ \A l \in 1 .. k - 1 : ~MatchAt(text, l)
                     a == DigitsStart(text, i)
                 IN  ParseU32(SubSeq(text, a, RunEnd(text, a, AsciiDigit) - 1), 0)
            ELSE IF HasMarker(text) THEN 1 ELSE 0

\* the first run of consecutive digits of t
FirstDigitRun(t) ==
    LET a == RunEnd(t, 1, (Range(t) \ AsciiDigit))
    IN  SubSeq(t, a, RunEnd(t, a, AsciiDigit) - 1)

\* C10: the timer value is the integer value of the first run of
\* consecutive digits of the recognised text, and 0 when it has no digit.
C10_TimerIsFirstDigitRun ==
    parsed.fn = "detect_timer" =>
        parsed.value =
            IF FirstDigitRun(text) = <<>> THEN 0 ELSE ParseU32(FirstDigitRun(text), 0)

----------------------------------------------------------------------------
(* Owned buffers (image.rs): from_rgba, to_owned_image, padded, resize_h.  *)
(* A buffer is [width, height, len], len the length of its data.           *)

Abs(n) == IF n < 0 THEN -n ELSE n

MaxSide == 5

MaxRows == 3

MaxOps == 2

\* what an operation that panicked leaves in place of a buffer
Panic == [width |-> Poison, height |-> Poison, len |-> Poison]

\* OwnedImage::from_rgba(width, bytes) for a slice of nbytes bytes;
\* width = 0 divides by zero
from_rgba(w, nbytes) ==
    IF w = 0 THEN Panic
    ELSE [width |-> w, height |-> (nbytes \div w) \div 4, len |-> nbytes \div 4]

\* Image::to_owned_image of a view of the buffer
to_owned_image(v) ==
    [width |-> width(v), height |-> height(v), len |-> width(v) * height(v)]

\* OwnedImage::padded
padded(b, pad) ==
    IF pad = 0 THEN b
    ELSE LET new_w == b.width + 2 * pad
             new_h == b.height + 2 * pad
         IN  [width |-> new_w, height |-> new_h, len |-> new_w * new_h]

\* the width resize_h computes; dividing by a height of 0 panics
resized_width(b, h) ==
    IF b.height = 0 THEN Poison ELSE (b.width * h) \div b.height

\* fast_image_resize is known to take a source whose byte buffer matches
\* its non-zero size, and a non-empty destination
LibraryTakes(b, w, h) ==
    b.len = b.width * b.height /\ b.width > 0 /\ b.height > 0 /\ w > 0 /\ h > 0

\* OwnedImage::resize_h, given whether the library calls succeeded
resize_h(b, h, ok) ==
    IF b.height = h THEN b
    ELSE IF resized_width(b, h) = Poison \/ ~ok THEN Panic
    ELSE [width |-> resized_width(b, h), height |-> h, len |-> resized_width(b, h) * h]

InitBuffer ==
    /\ IdleBuf
    /\ IdleView /\ IdleText /\ IdlePipe /\ IdleParse /\ IdleEff /\ IdleApp /\ IdleMod /\ IdlePol /\ IdleTimed /\ IdleSave /\ IdleOverlay

\* the operation `name` applied to buf returned (or panicked computing) r
Made(name, r) ==
    /\ bop' = [name |-> name, panicked |-> r = Panic]
    /\ buf' = IF r = Panic THEN buf ELSE r
    /\ trail' = IF name = "from_rgba" THEN <<>>
                ELSE Append(trail, [width |-> buf.width, height |-> buf.height, op |-> name])
    /\ UNCHANGED <<viewVars, textVars, pipeVars, parseVars, effVars, appVars, modVars, polVars, timedVars, saveVars, overlayVars>>

CanOperate == bop.name # "none" /\ ~bop.panicked /\ Len(trail) < MaxOps

FromRgba ==
    /\ bop.name = "none"
    /\ \E w \in 0 .. MaxSide, nbytes \in 0 .. 4 * MaxSide * MaxRows :
         Made("from_rgba", from_rgba(w, nbytes))

ToOwnedImage ==
    /\ CanOperate
    /\ \E w \in 0 .. buf.width, h \in 0 .. buf.height :
         Made("to_owned_image", to_owned_image(sub_image(as_image(buf), 0, 0, w, h)))

Padded ==
    /\ CanOperate
    /\ \E pad \in {0, 1} : Made("padded", padded(buf, pad))

ResizeH ==
    /\ CanOperate
    /\ \E h \in 0 .. MaxSide :
         \E ok \in IF LibraryTakes(buf, resized_width(buf, h), h) THEN {TRUE} ELSE BOOLEAN :
            Made("resize_h", resize_h(buf, h, ok))

NextBuffer == FromRgba \/ ToOwnedImage \/ Padded \/ ResizeH

SpecBuffer == InitBuffer /\ [][NextBuffer]_vars

\* C13: every buffer that from_rgba, to_owned_image, padded or resize_h
\* returned holds exactly width * height pixels.
C13_LenIsArea ==
    bop.name # "none" /\ ~bop.panicked => buf.len = buf.width * buf.height

\* C14: a buffer resized to another height and then back to its own height
\* has a width that differs from the one it had by at most 1.
C14_RoundTripWidth ==
    /\ Len(trail) = 2 /\ ~bop.panicked
    /\ trail[1].op = "resize_h" /\ trail[2].op = "resize_h"
    /\ buf.height = trail[1].height
    => Abs(buf.width - trail[1].width) <= 1

----------------------------------------------------------------------------
(* Pixels, colours and averages (image.rs, theme.rs).                      *)

BLACK == [r |-> 0, g |-> 0, b |-> 0]

WHITE == [r |-> 255, g |-> 255, b |-> 255]

\* a light grey, close to WHITE
PALE == [r |-> 235, g |-> 235, b |-> 235]

Palette == {BLACK, WHITE, PALE}

\* A capture is painted in vertical bands of equal width, one colour each.
Bands == {1, 2}

\* data[i] of the capture's buffer
DataAt(cap, i) ==
    cap.paint[((i % cap.width) * Cardinality(Bands)) \div cap.width + 1]

\* Image::pixel
pixel(cap, v, x, y) == DataAt(cap, x + y * v.true_width)

RECURSIVE SumRow(_, _, _, _, _)
SumRow(cap, v, x, y, ch) ==
    IF x >= v.x2 THEN 0 ELSE pixel(cap, v, x, y)[ch] + SumRow(cap, v, x + 1, y, ch)

RECURSIVE SumRows(_, _, _, _)
SumRows(cap, v, y, ch) ==
    IF y >= v.y2 THEN 0 ELSE SumRow(cap, v, v.x1, y, ch) + SumRows(cap, v, y + 1, ch)

\* average_color divides by width * height: a division by zero, which
\* panics, on an empty view
AveragePanics(v) == width(v) * height(v) = 0

average_color(cap, v) ==
    LET count == width(v) * height(v)
    IN  [r |-> SumRows(cap, v, v.y1, "r") \div count,
         g |-> SumRows(cap, v, v.y1, "g") \div count,
         b |-> SumRows(cap, v, v.y1, "b") \div count]

\* Color::deviation, ((|dr| + |dg| + |db|) / 255 / 3 / 0.05)^3, in units of
\* (1 / 38.25)^3 and in exact arithmetic (the f32 rounding is not modelled)
deviation(a, b) ==
    LET s == Abs(a.r - b.r) + Abs(a.g - b.g) + Abs(a.b - b.b)
    IN  s * s * s

\* `dev < 12.0` in the units of deviation: 12 * 38.25^3 = 671545.6875
SelectedCeiling == 671545

\* (n / d).round() of a non-negative f32, in exact arithmetic
Round(n, d) == (2 * n + d) \div (2 * d)

\* Theme::from_options: [panicked, theme]
from_options(cap, im) ==
    LET w == Max(width(im), 1)
        h == Max(height(im), 1)
        bar_x == Round(w * 110, 1920)
        bar_y == Round(h * 87, 1080)
        bar_w == Max(Round(w * 20, 1920), 1)
        bar_h == Max(Round(h * 1, 1080), 1)
        mouse_x == Round(w * 146, 1920)
        mouse_y == Round(h * 181, 1080)
        mouse_w == Max(Round(w * 14, 1920), 1)
        mouse_h == Max(Round(h * 8, 1080), 1)
        bar == sub_image(im, bar_x, bar_y, bar_w, bar_h)
        mouse == sub_image(im, mouse_x, mouse_y, mouse_w, mouse_h)
    IN  IF AveragePanics(bar) \/ AveragePanics(mouse)
        THEN [panicked |-> TRUE]
        ELSE [panicked |-> FALSE,
              theme |-> [primary |-> average_color(cap, bar),
                         secondary |-> average_color(cap, mouse)]]

----------------------------------------------------------------------------
(* detect_reward_slots (screen/relicreward.rs).  The contours are what     *)
(* imageproc's find_contours returns for the binarized region of interest: *)
(* a sequence of [outer, min_x, min_y, max_x, max_y], the border type and  *)
(* bounding box of each, in coordinates of the region of interest.         *)

Rect(x, y, w, h) == [x |-> x, y |-> y, w |-> w, h |-> h]

center_x(r) == r.x + r.w \div 2

center_y(r) == r.y + r.h \div 2

\* Rect::iou(a, b) > 0.5
IouAboveHalf(a, b) ==
    LET x1 == Max(a.x, b.x)
        y1 == Max(a.y, b.y)
        x2 == Min(a.x + a.w, b.x + b.w)
        y2 == Min(a.y + a.h, b.y + b.h)
        inter == (x2 - x1) * (y2 - y1)
    IN  IF x2 <= x1 \/ y2 <= y1 THEN FALSE
        ELSE 2 * inter > a.w * a.h + b.w * b.h - inter

\* the region of interest, as the view sub_image returns
Roi(im) ==
    LET w == width(im)
        h == height(im)
        roi_x1 == Round(w * 15, 100)
        roi_x2 == Round(w * 85, 100)
        roi_y1 == Round(h * 18, 100)
        roi_y2 == Round(h * 75, 100)
        roi_w == Max(SatSub(roi_x2, roi_x1), 1)
        roi_h == Max(SatSub(roi_y2, roi_y1), 1)
    IN  [x1 |-> roi_x1, y1 |-> roi_y1,
         view |-> sub_image(im, roi_x1, roi_y1, roi_w, roi_h)]

\* the size and aspect filters of the contour loop
KeepsContour(im, c) ==
    LET rw == c.max_x - c.min_x + 1
        rh == c.max_y - c.min_y + 1
        min_side == (height(im) * 12) \div 100
        max_side == (height(im) * 40) \div 100
    IN  /\ c.outer
        /\ c.min_x >= 0 /\ c.min_y >= 0
        /\ rw > 0 /\ rh > 0
        /\ rw >= min_side /\ rh >= min_side /\ rw <= max_side /\ rh <= max_side
        /\ 80 * rh <= 100 * rw /\ 100 * rw <= 125 * rh

\* the rects pushed by the contour loop, in contour order
RECURSIVE CandidateRects(_, _)
CandidateRects(im, cs) ==
    IF cs = <<>> THEN <<>>
    ELSE LET c == Head(cs)
         IN  (IF KeepsContour(im, c)
              THEN <<Rect(Roi(im).x1 + c.min_x, Roi(im).y1 + c.min_y,
                          c.max_x - c.min_x + 1, c.max_y - c.min_y + 1)>>
              ELSE <<>>) \o CandidateRects(im, Tail(cs))

\* the bucket key of a rect
RowKey(im, r) == center_y(r) \div Max(Round(height(im) * 6, 100), 1)

\* buckets[key]: the rects of the key, in push order
RECURSIVE Bucket(_, _, _)
Bucket(im, rects, key) ==
    IF rects = <<>> THEN <<>>
    ELSE (IF RowKey(im, Head(rects)) = key THEN <<Head(rects)>> ELSE <<>>)
         \o Bucket(im, Tail(rects), key)

\* the keys max_by_key(len) may return over the values of the HashMap, whose
\* iteration order is not fixed: any key of a longest bucket
LongestKeys(im, rects) ==
    LET keys == {RowKey(im, rects[i]) : i \in 1 .. Len(rects)}
    IN  {k \in keys : \A l \in keys : Len(Bucket(im, rects, l)) <= Len(Bucket(im, rects, k))}

\* sort_by_key(|r| r.x), a stable sort
RECURSIVE InsertByX(_, _)
InsertByX(sorted, r) ==
    IF sorted = <<>> THEN <<r>>
    ELSE IF sorted[Len(sorted)].x <= r.x THEN Append(sorted, r)
    ELSE Append(InsertByX(SubSeq(sorted, 1, Len(sorted) - 1), r), sorted[Len(sorted)])

RECURSIVE SortByX(_)
SortByX(rects) ==
    IF rects = <<>> THEN <<>>
    ELSE InsertByX(SortByX(SubSeq(rects, 1, Len(rects) - 1)), rects[Len(rects)])

\* the dedup loop: a rect overlapping the last kept one is merged into it,
\* the larger of the two staying
RECURSIVE Dedup(_, _)
Dedup(kept, rest) ==
    IF rest = <<>> THEN kept
    ELSE LET r == Head(rest)
             prev == kept[Len(kept)]
         IN  IF kept # <<>> /\ IouAboveHalf(prev, r)
             THEN Dedup(IF r.w * r.h > prev.w * prev.h
                        THEN [kept EXCEPT ![Len(kept)] = r] ELSE kept,
                        Tail(rest))
             ELSE Dedup(Append(kept, r), Tail(rest))

\* detect_reward_slots: the set of vectors it may return
detect_reward_slots(im, contours) ==
    IF width(im) = 0 \/ height(im) = 0 THEN {<<>>}
    ELSE LET rects == CandidateRects(im, contours)
         IN  IF rects = <<>> THEN {<<>>}
             ELSE {Dedup(<<>>, SortByX(Bucket(im, rects, k))) : k \in LongestKeys(im, rects)}

----------------------------------------------------------------------------
(* get_selected (screen/relicreward.rs).                                   *)

\* the corner patch of a slot: [skipped], or the view that is averaged
Patch(im, slot) ==
    LET size == Max(Round(slot.w * 12, 235), 6)
        pad_r == Max(Round(slot.w * 5, 235), 1)
        pad_t == Max(Round(slot.h * 4, 235), 1)
        x == slot.x + SatSub(slot.w, size + pad_r)
        y == slot.y + pad_t
        sw == Min(size, SatSub(width(im), x))
        sh == Min(size, SatSub(height(im), y))
    IN  IF sw = 0 \/ sh = 0 THEN [skipped |-> TRUE]
        ELSE [skipped |-> FALSE, view |-> sub_image(im, x, y, sw, sh)]

\* dev of a slot whose patch is not skipped
PatchDeviation(cap, im, theme, slot) ==
    deviation(average_color(cap, Patch(im, slot).view), theme.secondary)

\* a comparison that also replaces the best on a tie
CloserOrTied(dev, best_dev) == dev <= best_dev

\* `dev < best_dev`
Closer(dev, best_dev) == dev < best_dev

\* the loop over the slots from the i-th on; best is <<>> or <<index, dev>>
RECURSIVE SelectedLoop(_, _, _, _, _, _)
SelectedLoop(cap, im, theme, slots, i, best) ==
    IF i > Len(slots) THEN best
    ELSE IF Patch(im, slots[i]).skipped
         THEN SelectedLoop(cap, im, theme, slots, i + 1, best)
         ELSE LET dev == PatchDeviation(cap, im, theme, slots[i])
              IN  SelectedLoop(cap, im, theme, slots, i + 1,
                               IF best = <<>> THEN <<i - 1, dev>>
                               ELSE IF Closer(dev, best[2]) THEN <<i - 1, dev>>
                               ELSE best)

\* get_selected after its call of detect_reward_slots: None or Some(index)
get_selected(cap, im, theme, slots) ==
    IF slots = <<>> THEN None
    ELSE LET best == SelectedLoop(cap, im, theme, slots, 1, <<>>)
         IN  IF best # <<>> /\ best[2] <= SelectedCeiling THEN best[1] ELSE None

----------------------------------------------------------------------------
(* get_rewards, parse_reward, detect_timer (screen/relicreward.rs).  The   *)
(* engine is a stub: it answers by the kind of region it is shown, the     *)
(* same for every preprocessing of it, and reads nothing in an empty       *)
(* region nor in one that starts left of eng.blank_left_of.                *)

NothingRead == [text |-> <<>>, conf |-> 0]

RegionAnswer(eng, kind, v) ==
    IF width(v) = 0 \/ height(v) = 0 \/ v.x1 < eng.blank_left_of
    THEN NothingRead
    ELSE eng[kind]

\* Image::get_text of a region
RegionText(eng, kind, v) ==
    get_text([c \in CandidateSet |-> RegionAnswer(eng, kind, v)])

\* normalize_name
normalize_name(raw) ==
    Trim(Collapse([i \in 1 .. Len(raw) |-> IF raw[i] = "\n" THEN " " ELSE raw[i]], FALSE))

\* name_img of parse_reward
NameRegion(im, slot) ==
    LET slot_img == sub_image(im, slot.x, slot.y, slot.w, slot.h)
        margin == Max(Round(slot.w * 5, 100), 1)
        name_h == Max(Round(slot.h * 30, 100), 12)
        name_y == SatSub(slot.h, name_h)
        name_w == Max(SatSub(slot.w, margin * 2), 1)
    IN  sub_image(slot_img, margin, name_y, name_w, name_h)

\* owned_img of parse_reward
OwnedRegion(im, slot) ==
    LET slot_img == sub_image(im, slot.x, slot.y, slot.w, slot.h)
        margin == Max(Round(slot.w * 5, 100), 1)
        name_w == Max(SatSub(slot.w, margin * 2), 1)
        owned_h == Max(Round(slot.h * 14, 100), 10)
    IN  sub_image(slot_img, margin, 0, name_w, owned_h)

parse_reward(im, slot, eng) ==
    [name |-> normalize_name(RegionText(eng, "name", NameRegion(im, slot))),
     owned |-> UnwrapOr0(parse_owned_count(RegionText(eng, "owned", OwnedRegion(im, slot))))]

RECURSIVE SumOver(_, _)
SumOver(f, n) == IF n = 0 THEN 0 ELSE f[n] + SumOver(f, n - 1)

\* timer_img of detect_timer: [skipped], or the view that is read
TimerRegion(im, slots) ==
    LET n == Len(slots)
        avg_h == SumOver([i \in 1 .. n |-> slots[i].h], n) \div Max(n, 1)
        top_y == IF n = 0 THEN 0
                 ELSE CHOOSE m \in {slots[i].y : i \in 1 .. n} :
                          \A i \in 1 .. n : m <= slots[i].y
        timer_size == Max(Round(avg_h * 64, 235), 16)
        timer_offset == Max(Round(avg_h * 90, 235), 10)
        cx == SumOver([i \in 1 .. n |-> center_x(slots[i])], n) \div Max(n, 1)
        x == SatSub(cx, timer_size \div 2)
        y == SatSub(top_y, timer_offset)
        w == Min(timer_size, SatSub(width(im), x))
        h == Min(timer_size, SatSub(height(im), y))
    IN  IF w = 0 \/ h = 0 THEN [skipped |-> TRUE]
        ELSE [skipped |-> FALSE, view |-> sub_image(im, x, y, w, h)]

detect_timer(im, slots, eng) ==
    IF TimerRegion(im, slots).skipped THEN 0
    ELSE timer_value(RegionText(eng, "timer", TimerRegion(im, slots).view))

\* get_rewards after its call of detect_reward_slots
get_rewards(im, slots, eng) ==
    IF slots = <<>> THEN [timer |-> 0, rewards |-> <<>>]
    ELSE [timer |-> detect_timer(im, slots, eng),
          rewards |-> [i \in 1 .. Len(slots) |-> parse_reward(im, slots[i], eng)]]

----------------------------------------------------------------------------
(* The pipeline: one entry point is called on one capture.                 *)

\* captures: empty ones, a tiny one, and one large enough to hold reward
\* slots (region of interest 14 x 10, slot sides 2 to 6)
CaptureSizes ==
    { [width |-> 0, height |-> 0], [width |-> 20, height |-> 0],
      [width |-> 0, height |-> 17], [width |-> 2, height |-> 2],
      [width |-> 20, height |-> 17] }

Captures ==
    {[width |-> sz.width, height |-> sz.height, paint |-> p] :
        sz \in CaptureSizes, p \in [Bands -> Palette]}

Box(outer, min_x, min_y, max_x, max_y) ==
    [outer |-> outer, min_x |-> min_x, min_y |-> min_y, max_x |-> max_x, max_y |-> max_y]

\* the contours find_contours may report, in the order it reports them:
\* five 2 x 2 squares in one row, a 4 x 4 and a 5 x 5 square over each other
\* in a lower row, the hole of the latter, and a speck
Boxes ==
    << Box(TRUE, 0, 0, 1, 1), Box(TRUE, 3, 0, 4, 1), Box(TRUE, 6, 0, 7, 1),
       Box(TRUE, 9, 0, 10, 1), Box(TRUE, 12, 0, 13, 1),
       Box(TRUE, 0, 4, 3, 7), Box(TRUE, 0, 4, 4, 8), Box(FALSE, 1, 5, 3, 7),
       Box(TRUE, 7, 5, 7, 5) >>

RECURSIVE Pick(_, _)
Pick(seq, keep) ==
    IF seq = <<>> THEN <<>>
    ELSE (IF Len(seq) \in keep THEN <<seq[Len(seq)]>> ELSE <<>>)
         \o Pick(SubSeq(seq, 1, Len(seq) - 1), keep)

RECURSIVE Reverse(_)
Reverse(seq) == IF seq = <<>> THEN <<>> ELSE Append(Reverse(Tail(seq)), Head(seq))

\* what find_contours may return for the region of interest of a capture:
\* any of the boxes that lie inside it; it is not called on an empty capture
ContourLists(im) ==
    IF width(im) = 0 \/ height(im) = 0 THEN {<<>>}
    ELSE LET roi == Roi(im).view
             fits == {i \in 1 .. Len(Boxes) :
                         Boxes[i].max_x < width(roi) /\ Boxes[i].max_y < height(roi)}
         IN  {Reverse(Pick(Boxes, keep)) : keep \in SUBSET fits}

Themes == {[primary |-> BLACK, secondary |-> c] : c \in {WHITE, PALE}}

Engines ==
    {[blank_left_of |-> k,
      name |-> [text |-> <<"F", "o", "r", "m", "a">>, conf |-> 95],
      owned |-> [text |-> <<"O", "W", "N", "E", "D", " ", "2">>, conf |-> 90],
      timer |-> [text |-> <<"1", "2">>, conf |-> 90]] : k \in {0, 10, 99}}

InitPipeline ==
    /\ capture \in Captures
    /\ out = [call |-> "none", panicked |-> FALSE]
    /\ IdleView /\ IdleText /\ IdleParse /\ IdleBuf /\ IdleEff /\ IdleApp /\ IdleMod /\ IdlePol /\ IdleTimed /\ IdleSave /\ IdleOverlay

\* get_rewards(image, theme, ocr)
GetRewards ==
    /\ out.call = "none"
    /\ \E contours \in ContourLists(as_image(capture)), eng \in Engines :
         \E slots \in detect_reward_slots(as_image(capture), contours) :
            out' = [call |-> "get_rewards", panicked |-> FALSE,
                    contours |-> contours, slots |-> slots, eng |-> eng,
                    value |-> get_rewards(as_image(capture), slots, eng)]
    /\ UNCHANGED <<capture, viewVars, textVars, parseVars, bufVars, effVars, appVars, modVars, polVars, timedVars, saveVars, overlayVars>>

\* get_selected(image, theme)
GetSelected ==
    /\ out.call = "none"
    /\ \E contours \in ContourLists(as_image(capture)), theme \in Themes :
         \E slots \in detect_reward_slots(as_image(capture), contours) :
            out' = [call |-> "get_selected", panicked |-> FALSE,
                    contours |-> contours, slots |-> slots, theme |-> theme,
                    value |-> get_selected(capture, as_image(capture), theme, slots)]
    /\ UNCHANGED <<capture, viewVars, textVars, parseVars, bufVars, effVars, appVars, modVars, polVars, timedVars, saveVars, overlayVars>>

\* Theme::from_options(image)
FromOptions ==
    /\ out.call = "none"
    /\ LET res == from_options(capture, as_image(capture))
       IN  out' = IF res.panicked
                  THEN [call |-> "from_options", panicked |-> TRUE]
                  ELSE [call |-> "from_options", panicked |-> FALSE, value |-> res.theme]
    /\ UNCHANGED <<capture, viewVars, textVars, parseVars, bufVars, effVars, appVars, modVars, polVars, timedVars, saveVars, overlayVars>>

NextPipeline == GetRewards \/ GetSelected \/ FromOptions

SpecPipeline == InitPipeline /\ [][NextPipeline]_vars
----------------------------------------------------------------------------
(* average_deviation_masked (image.rs).  A mask is [bytes, bits]: the      *)
(* length of its byte vector and the indices of the bits that are set.     *)
(* The result is [panicked, max, sum, count, mask_reads, pixel_reads]:     *)
(* max for f32::MAX, otherwise the value is (sum / 255) / count, or 0.0    *)
(* when count is 0.                                                        *)

\* luma, the integer approximation of Rec.601
luma(c) == ((c.r * 77 + c.g * 150 + c.b * 29) \div 256) % 256

\* a shape test that looks at the widths only
WidthsDiffer(a, b) == a.x2 - a.x1 # b.x2 - b.x1

\* the two early returns
ShapesDiffer(a, b) == a.x2 - a.x1 # b.x2 - b.x1 \/ a.y2 - a.y1 # b.y2 - b.y1

\* a read of `other` that leaves out the offset of the view
OtherPixelUnshifted(cap, other, x, y) == pixel(cap, other, x, y)

\* other.pixel(other.x1 + x, other.y1 + y)
OtherPixel(cap, other, x, y) == pixel(cap, other, other.x1 + x, other.y1 + y)

\* a.abs_diff(b) of the i-th pixel of the two views, in row-major order
AbsDiffAt(cap, a, b, i) ==
    LET w == a.x2 - a.x1
        x == i % w
        y == i \div w
    IN  Abs(luma(pixel(cap, a, a.x1 + x, a.y1 + y)) - luma(OtherPixel(cap, b, x, y)))

\* the indices of the loop whose mask bit is set
Masked(mask, n) == {i \in 0 .. n - 1 : i \in mask.bits}

RECURSIVE SumAbsDiff(_, _, _, _)
SumAbsDiff(cap, a, b, todo) ==
    IF todo = {} THEN 0
    ELSE LET i == CHOOSE k \in todo : TRUE
         IN  AbsDiffAt(cap, a, b, i) + SumAbsDiff(cap, a, b, todo \ {i})

average_deviation_masked(cap, a, b, mask) ==
    LET n == (a.x2 - a.x1) * (a.y2 - a.y1)
        yes == Masked(mask, n)
    IN  IF ShapesDiffer(a, b)
        THEN [panicked |-> FALSE, max |-> TRUE, sum |-> 0, count |-> 0,
              mask_reads |-> 0, pixel_reads |-> 0]
        ELSE IF n > 8 * mask.bytes
        THEN \* mask.0[i / 8] is out of bounds for i = 8 * mask.bytes
             [panicked |-> TRUE, max |-> FALSE, sum |-> 0, count |-> 0,
              mask_reads |-> 8 * mask.bytes,
              pixel_reads |-> 2 * Cardinality(Masked(mask, 8 * mask.bytes))]
        ELSE [panicked |-> FALSE, max |-> FALSE,
              sum |-> SumAbsDiff(cap, a, b, yes), count |-> Cardinality(yes),
              mask_reads |-> n, pixel_reads |-> 2 * Cardinality(yes)]

\* a 2 x 2 buffer, each column of one colour
Thumbnails == {[width |-> 2, height |-> 2, paint |-> p] : p \in [Bands -> Palette]}

\* no byte at all; one byte with no, every other, or every bit set
Masks ==
    { [bytes |-> 0, bits |-> {}], [bytes |-> 1, bits |-> {}],
      [bytes |-> 1, bits |-> {0, 2, 4, 6}], [bytes |-> 1, bits |-> 0 .. 7] }

InitDeviation ==
    /\ capture \in Thumbnails
    /\ out = [call |-> "none", panicked |-> FALSE]
    /\ IdleView /\ IdleText /\ IdleParse /\ IdleBuf /\ IdleEff /\ IdleApp /\ IdleMod /\ IdlePol /\ IdleTimed /\ IdleSave /\ IdleOverlay

\* self.average_deviation_masked(other, mask) on two views of the buffer
AverageDeviationMasked ==
    /\ out.call = "none"
    /\ \E a, b \in {v \in Views(capture) : v.x1 <= v.x2 /\ v.y1 <= v.y2}, mask \in Masks :
         LET r == average_deviation_masked(capture, a, b, mask)
         IN  out' = [call |-> "average_deviation_masked", panicked |-> r.panicked,
                     self |-> a, other |-> b, mask |-> mask, value |-> r]
    /\ UNCHANGED <<capture, viewVars, textVars, parseVars, bufVars, effVars, appVars, modVars, polVars, timedVars, saveVars, overlayVars>>

NextDeviation == AverageDeviationMasked

SpecDeviation == InitDeviation /\ [][NextDeviation]_vars

Compared == out.call = "average_deviation_masked"

\* C15: a view compared with itself under a mask that covers it gives
\* exactly 0, without a panic.
C15_SelfDeviationIsZero ==
    /\ Compared
    /\ out.self = out.other
    /\ width(out.self) * height(out.self) <= 8 * out.mask.bytes
    => /\ ~out.panicked
       /\ ~out.value.max
       /\ out.value.sum = 0

\* a view that does not start at the corner of a buffer whose columns
\* differ is compared with itself, and some of its pixels are read
C15_ShiftedSelfCompared ==
    /\ Compared
    /\ out.self = out.other
    /\ out.self.x1 > 0
    /\ out.value.count > 0
    /\ capture.paint[1] # capture.paint[2]

\* C16: when the two views differ in width or in height the result is
\* f32::MAX, no mask bit and no pixel has been read, and nothing panicked.
C16_MismatchIsSentinel ==
    /\ Compared
    /\ \/ width(out.self) # width(out.other)
       \/ height(out.self) # height(out.other)
    =>
        /\ ~out.panicked
        /\ out.value.max
        /\ out.value.mask_reads = 0
        /\ out.value.pixel_reads = 0

\* two non-empty views of the same width and different heights are compared
\* under a mask that has no byte to read
C16_HeightsDifferEmptyMask ==
    /\ Compared
    /\ width(out.self) = width(out.other) /\ width(out.self) > 0
    /\ height(out.self) > height(out.other) /\ height(out.other) > 0
    /\ out.mask.bytes = 0
    /\ out.value.max

----------------------------------------------------------------------------
(* What the pipeline operations do besides returning a value: the          *)
(* environment variables they read, the log lines and the files they       *)
(* write (image.rs: get_text, resize_h).                                   *)

\* n.retain(|v| v.is_ascii_alphanumeric()): the name of the debug image
AlnumOnly(t) ==
    LET keep(c) == c \in AsciiAlphabetic \cup AsciiDigit
    IN  SelectSeq(t, keep)

\* the world after a call during which get_text returned `texts` (none: it
\* was not called): get_text reads WFBUDDY_DEBUG_OCR and
\* WFBUDDY_WRITE_IMAGE, logs every candidate when the former is set, and
\* saves ./ocr_debug_{n}.png of its best image when the latter is "1"
AfterGetText(name, texts) ==
    [call |-> name,
     files |-> world.files \cup
               (IF env.WFBUDDY_WRITE_IMAGE = "1"
                THEN {AlnumOnly(t) : t \in texts \ {<<>>}} ELSE {}),
     env_read |-> IF texts = {} THEN {}
                  ELSE {"WFBUDDY_DEBUG_OCR", "WFBUDDY_WRITE_IMAGE"},
     logged |-> texts # {} /\ env.WFBUDDY_DEBUG_OCR # "unset"]

\* the texts get_text returns to get_rewards: the timer, and the name and
\* the owned count of every slot
RewardTexts(im, slots, eng) ==
    IF slots = <<>> THEN {}
    ELSE (IF TimerRegion(im, slots).skipped THEN {}
          ELSE {RegionText(eng, "timer", TimerRegion(im, slots).view)})
         \cup {RegionText(eng, "name", NameRegion(im, slots[i])) : i \in 1 .. Len(slots)}
         \cup {RegionText(eng, "owned", OwnedRegion(im, slots[i])) : i \in 1 .. Len(slots)}

Frame == [width |-> 20, height |-> 17, paint |-> [b \in Bands |-> BLACK]]

FrameContours == {<<>>, <<Boxes[1], Boxes[4]>>}

InitEffects ==
    /\ env \in [WFBUDDY_WRITE_IMAGE : {"unset", "0", "1"}, WFBUDDY_DEBUG_OCR : {"unset", "1"}]
    /\ world = [call |-> "none", files |-> {}, env_read |-> {}, logged |-> FALSE]
    /\ IdleView /\ IdleText /\ IdlePipe /\ IdleParse /\ IdleBuf /\ IdleApp /\ IdleMod /\ IdlePol /\ IdleTimed /\ IdleSave /\ IdleOverlay

\* Image::get_text
EffGetText ==
    /\ \E a \in EngineAnswers :
         world' = AfterGetText("get_text", {get_text([c \in CandidateSet |-> a])})
    /\ UNCHANGED <<env, viewVars, textVars, pipeVars, parseVars, bufVars, appVars, modVars, polVars, timedVars, saveVars, overlayVars>>

\* get_rewards
EffGetRewards ==
    /\ \E contours \in FrameContours, eng \in Engines :
         \E slots \in detect_reward_slots(as_image(Frame), contours) :
            world' = AfterGetText("get_rewards", RewardTexts(as_image(Frame), slots, eng))
    /\ UNCHANGED <<env, viewVars, textVars, pipeVars, parseVars, bufVars, appVars, modVars, polVars, timedVars, saveVars, overlayVars>>

\* get_selected
EffGetSelected ==
    /\ world' = AfterGetText("get_selected", {})
    /\ UNCHANGED <<env, viewVars, textVars, pipeVars, parseVars, bufVars, appVars, modVars, polVars, timedVars, saveVars, overlayVars>>

\* OwnedImage::resize_h: nothing when the height is the one asked for,
\* otherwise WFBUDDY_DEBUG_OCR is read and, when set, a line is logged
EffResizeH ==
    /\ \E b \in {from_rgba(2, 16), from_rgba(2, 32)}, h \in {2, 4} :
         world' = [call |-> "resize_h", files |-> world.files,
                   env_read |-> IF b.height = h THEN {} ELSE {"WFBUDDY_DEBUG_OCR"},
                   logged |-> b.height # h /\ env.WFBUDDY_DEBUG_OCR # "unset"]
    /\ UNCHANGED <<env, viewVars, textVars, pipeVars, parseVars, bufVars, appVars, modVars, polVars, timedVars, saveVars, overlayVars>>

NextEffects == EffGetText \/ EffGetRewards \/ EffGetSelected \/ EffResizeH

SpecEffects == InitEffects /\ [][NextEffects]_vars

\* C17: no call of get_rewards, get_selected, get_text or resize_h reads an
\* environment variable, writes a log line or writes a file.
C17_NoEffects ==
    [][/\ world'.files = world.files
       /\ world'.env_read = {}
       /\ ~world'.logged]_vars

----------------------------------------------------------------------------
(* The application's update loop (wfbuddy/src/app.rs).  Durations are in   *)
(* units of 350 ms, rounded.                                               *)

MaxTime == 10

MaxTasks == 2

\* Duration::from_millis(350)
RewardPollEvery == 1

\* Duration::from_secs(3)
RewardModeFor == 9

\* Duration::from_secs(60)
LongAgo == 171

\* config.poll_delay_s.max(0.1), here 0.7 s
PollDelay == 2

\* PollState::new(now)
NewPollState(now) ==
    [last_party_poll |-> now - LongAgo, party_in_flight |-> FALSE,
     reward_mode_until |-> None, next_reward_poll |-> now,
     reward_in_flight |-> FALSE]

InitApp ==
    /\ clock = 0
    /\ poll = NewPollState(0)
    /\ tasks = [party |-> 0, relic |-> 0]
    /\ relic = [rewards |-> "none", selected |-> None, last_updated |-> None]
    /\ status = "none"
    /\ IdleView /\ IdleText /\ IdlePipe /\ IdleParse /\ IdleBuf /\ IdleEff /\ IdleMod /\ IdlePol /\ IdleTimed /\ IdleSave /\ IdleOverlay

\* a PollRelicNow that starts a task whatever the flag says
RelicPollStartsAlways(p) == TRUE

\* PollRelicNow starts a task unless one is in flight
RelicPollStarts(p) == ~p.reward_in_flight

\* PollPartyHeaderNow starts a task unless one is in flight
PartyPollStarts(p) == ~p.party_in_flight

\* Message::PollPartyHeaderNow on poll state p with t tasks: [poll, tasks]
poll_party_header_now(p, t) ==
    IF PartyPollStarts(p)
    THEN [poll |-> [p EXCEPT !.party_in_flight = TRUE],
          tasks |-> [t EXCEPT !.party = @ + 1]]
    ELSE [poll |-> p, tasks |-> t]

\* Message::PollRelicNow
poll_relic_now(p, t) ==
    IF RelicPollStarts(p)
    THEN [poll |-> [p EXCEPT !.reward_in_flight = TRUE],
          tasks |-> [t EXCEPT !.relic = @ + 1]]
    ELSE [poll |-> p, tasks |-> t]

\* App::on_tick, with the poll delay and the 350 ms given in the unit of now
on_tick_at(p, t, now, delay, every) ==
    IF ~p.party_in_flight /\ now - p.last_party_poll >= delay
    THEN poll_party_header_now([p EXCEPT !.last_party_poll = now], t)
    ELSE IF p.reward_mode_until # None
    THEN IF /\ now <= p.reward_mode_until
            /\ ~p.reward_in_flight
            /\ now >= p.next_reward_poll
         THEN poll_relic_now([p EXCEPT !.next_reward_poll = now + every], t)
         ELSE IF now > p.reward_mode_until
         THEN [poll |-> [p EXCEPT !.reward_mode_until = None], tasks |-> t]
         ELSE [poll |-> p, tasks |-> t]
    ELSE [poll |-> p, tasks |-> t]

\* App::on_tick
on_tick(p, t, now) == on_tick_at(p, t, now, PollDelay, RewardPollEvery)

\* a RelicPolled that forgets what was stored when the poll failed
relic_polled_forgetting(p, r, res, selected, now) ==
    [poll |-> [p EXCEPT !.reward_in_flight = FALSE],
     relic |-> IF res = "ok"
               THEN [rewards |-> "some", selected |-> selected, last_updated |-> now]
               ELSE [rewards |-> "none", selected |-> None, last_updated |-> None]]

\* Message::RelicPolled(res) on poll state p and relic state r: [poll, relic]
relic_polled(p, r, res, selected, now) ==
    [poll |-> [p EXCEPT !.reward_in_flight = FALSE],
     relic |-> IF res = "ok"
               THEN [rewards |-> "some", selected |-> selected, last_updated |-> now]
               ELSE r]

AppFrame == UNCHANGED <<viewVars, textVars, pipeVars, parseVars, bufVars, effVars, modVars, polVars, timedVars, saveVars, overlayVars>>

\* time passes
Advance ==
    /\ clock < MaxTime
    /\ clock' = clock + 1
    /\ UNCHANGED <<poll, tasks, relic, status>>
    /\ AppFrame

\* Message::Tick(now)
Tick ==
    /\ on_tick(poll, tasks, clock).tasks.party <= MaxTasks
    /\ on_tick(poll, tasks, clock).tasks.relic <= MaxTasks
    /\ poll' = on_tick(poll, tasks, clock).poll
    /\ tasks' = on_tick(poll, tasks, clock).tasks
    /\ UNCHANGED <<clock, relic, status>>
    /\ AppFrame

\* Message::PollPartyHeaderNow
PollPartyHeaderNow ==
    /\ poll_party_header_now(poll, tasks).tasks.party <= MaxTasks
    /\ poll' = poll_party_header_now(poll, tasks).poll
    /\ tasks' = poll_party_header_now(poll, tasks).tasks
    /\ UNCHANGED <<clock, relic, status>>
    /\ AppFrame

\* Message::PartyHeaderPolled(res), sent by a party-header task that ended
PartyHeaderPolled ==
    /\ tasks.party > 0
    /\ tasks' = [tasks EXCEPT !.party = @ - 1]
    /\ \E res \in {"some", "none", "err"} :
         /\ poll' = IF res = "some"
                    THEN [poll EXCEPT !.party_in_flight = FALSE,
                                      !.reward_mode_until = clock + RewardModeFor,
                                      !.next_reward_poll = clock]
                    ELSE [poll EXCEPT !.party_in_flight = FALSE]
         /\ status' = IF res = "some" THEN "party header"
                      ELSE IF res = "none" THEN "party header none"
                      ELSE "party header poll failed"
    /\ UNCHANGED <<clock, relic>>
    /\ AppFrame

\* Message::PollRelicNow
PollRelicNow ==
    /\ poll_relic_now(poll, tasks).tasks.relic <= MaxTasks
    /\ poll' = poll_relic_now(poll, tasks).poll
    /\ tasks' = poll_relic_now(poll, tasks).tasks
    /\ UNCHANGED <<clock, relic, status>>
    /\ AppFrame

\* Message::RelicPolled(res), sent by a relic task that ended
RelicPolled ==
    /\ tasks.relic > 0
    /\ tasks' = [tasks EXCEPT !.relic = @ - 1]
    /\ \E res \in {"ok", "err"}, selected \in {None, 0} :
         /\ poll' = relic_polled(poll, relic, res, selected, clock).poll
         /\ relic' = relic_polled(poll, relic, res, selected, clock).relic
         /\ status' = IF res = "ok" THEN status ELSE "relic poll failed"
    /\ UNCHANGED clock
    /\ AppFrame

NextApp ==
    \/ Advance
    \/ Tick
    \/ PollPartyHeaderNow
    \/ PartyHeaderPolled
    \/ PollRelicNow
    \/ RelicPolled

SpecApp == InitApp /\ [][NextApp]_vars

\* C18: at any time at most one party-header poll task and at most one
\* relic-reward poll task is in flight.
C18_OnePollInFlight == tasks.party <= 1 /\ tasks.relic <= 1

\* C24: handling RelicPolled(Err) clears reward_in_flight, so that a later
\* PollRelicNow starts a task, and leaves the stored rewards, selected
\* index and last_updated as they were.  A step that ends a relic task is
\* the handling of RelicPolled; it reports a failure exactly when it sets
\* the status, and any other outcome stores a result dated now.
C24_FailedPollKeepsRewards ==
    [][tasks'.relic < tasks.relic
       => /\ ~poll'.reward_in_flight
          /\ status' = "relic poll failed" /\ status' # status => relic' = relic
          /\ relic' # relic => relic'.rewards = "some" /\ relic'.last_updated = clock']_vars

\* a poll failed after rewards had been stored; they are still there and
\* no relic poll is in flight
C24_FailedAfterStored ==
    /\ status = "relic poll failed"
    /\ relic.rewards = "some"
    /\ relic.selected # None
    /\ relic.last_updated # None /\ relic.last_updated < clock
    /\ ~poll.reward_in_flight
    /\ tasks.relic = 0

\* a relic task is in flight, the reward mode is on and its next poll is
\* due: neither a tick nor PollRelicNow starts another
C18_RelicPollDueWhileInFlight ==
    /\ tasks.relic = 1
    /\ poll.reward_in_flight
    /\ poll.reward_mode_until # None
    /\ clock <= poll.reward_mode_until
    /\ clock >= poll.next_reward_poll
    /\ tasks.party = 1

----------------------------------------------------------------------------
(* The RelicReward module of the application: RelicReward::tick, called    *)
(* once per UI frame, with the poller thread of IePol that feeds its event *)
(* channel.  Time is kept in units of 250 ms and relative to now:          *)
(* last_reward_seen holds the time elapsed since that instant (every value *)
(* above Grace stands for "more than 2 s ago"), next_auto_check and        *)
(* next_pol hold the time left until that instant (0: it has passed).      *)
(* The time left until next_pol is kept exactly below PolHorizon; the      *)
(* value PolHorizon stands for every longer wait, and time passing may     *)
(* leave it there or bring it to PolHorizon - 1.                           *)

Second == 4
AutoCheckEvery == 1
Grace == 8
SelectedDelay == 60
PolDelay == 12
DelayMargin == 2
TimerThreshold == 3

MaxQueue == 1
PolHorizon == 1
MaxSelected == 2

\* the names the reward screen offers, left to right
Offered == <<"forma", "2 X braton">>

\* what relicreward_get_selected may answer: a slot, or one past the last
Selections == 0 .. Len(Offered)

\* the countdown values the reward screen goes through
Timers == <<3, 2, 0>>

\* a capture of the game
Snapshots == {[screen |-> FALSE, timer |-> 0]} \cup
             {[screen |-> TRUE, timer |-> Timers[i]] : i \in 1 .. Len(Timers)}

\* no capture: try_recv found the channel empty, capture_specific failed
NoCapture == [screen |-> FALSE, timer |-> None]

\* no capture, nothing read
Unread == [present |-> FALSE, timer |-> None, rewards |-> <<>>]

\* Ie::relicreward_get_rewards on a capture g: the timer that is shown, the
\* names when the engine read them, and `present` as soon as anything hit
Detections(g) ==
    IF g.screen
    THEN {[present |-> TRUE, timer |-> g.timer, rewards |-> r] : r \in {<<>>, Offered}}
    ELSE {[present |-> FALSE, timer |-> 0, rewards |-> <<>>]}

\* RelicReward::new
NewRelicReward ==
    [current_rewards |-> <<>>, selected_rewards |-> 0,
     reward_screen_active |-> FALSE, overlay_placement |-> "none",
     last_reward_seen |-> None, next_auto_check |-> 0]

\* IePol::delay_till(now + wait) on S = [rm, next_pol, added]
delay_till(S, wait) == [S EXCEPT !.next_pol = Max(@, Min(wait, PolHorizon))]

\* RelicReward::check_rewards
check_rewards(S, rewards) ==
    LET S1 == [S EXCEPT !.rm.current_rewards = rewards.rewards]
        delay == SatSub(rewards.timer, DelayMargin)
    IN  IF delay > 0 THEN delay_till(S1, delay * Second) ELSE S1

\* the amount check_selected adds for a reward of this name: 2 when the
\* name starts with "2 X "
Amount(name) == IF name \in {"2 X braton"} THEN 2 ELSE 1

\* RelicReward::check_selected, where get_selected answered `selected`
check_selected(S, selected) ==
    LET cur == S.rm.current_rewards
        S1 == IF selected < Len(cur)
              THEN [S EXCEPT !.rm.selected_rewards = @ + Amount(cur[selected + 1]),
                             !.added = @ + 1]
              ELSE S
    IN  delay_till([S1 EXCEPT !.rm.current_rewards = <<>>], SelectedDelay)

\* RelicReward::update_overlay_placement, where window_bounds answered or not
update_overlay_placement(S, bounds) ==
    [S EXCEPT !.rm.overlay_placement = IF bounds THEN "placed" ELSE "none"]

reward_screen(rewards) ==
    rewards.present \/ rewards.timer > 0 \/ rewards.rewards # <<>>

\* the event-driven path of tick: ev is what try_recv gave (NoCapture or a
\* capture), rewards what get_rewards read from it
EventPath(S, ev, rewards, selected, bounds) ==
    IF ev = NoCapture THEN S
    ELSE LET S1 == IF reward_screen(rewards)
                   THEN [update_overlay_placement(
                             [S EXCEPT !.rm.reward_screen_active = TRUE], bounds)
                         EXCEPT !.rm.last_reward_seen = 0]
                   ELSE S
         IN  IF rewards.timer >= TimerThreshold THEN check_rewards(S1, rewards)
             ELSE IF S1.rm.current_rewards # <<>> THEN check_selected(S1, selected)
             ELSE S1

\* a clearing that leaves overlay_placement as it is
ClearedButPlaced(S) ==
    [S EXCEPT !.rm.current_rewards = <<>>,
              !.rm.reward_screen_active = FALSE,
              !.rm.last_reward_seen = None,
              !.added = 0]

\* the overlay state of the module, cleared
Cleared(S) ==
    [S EXCEPT !.rm.current_rewards = <<>>,
              !.rm.reward_screen_active = FALSE,
              !.rm.overlay_placement = "none",
              !.rm.last_reward_seen = None,
              !.added = 0]

\* the automatic detection path of tick: cap is what capture_specific gave
\* (NoCapture or a capture), rewards what get_rewards read from it
AutoPath(S, overlay_enabled, cap, rewards, selected, bounds) ==
    IF ~overlay_enabled THEN S
    ELSE IF S.rm.next_auto_check > 0 THEN S
    ELSE LET S1 == [S EXCEPT !.rm.next_auto_check = AutoCheckEvery]
         IN  IF cap = NoCapture THEN S1
             ELSE IF ~reward_screen(rewards)
             THEN IF S1.rm.last_reward_seen # None /\ S1.rm.last_reward_seen > Grace
                  THEN Cleared(S1)
                  ELSE S1
             ELSE LET S2 == update_overlay_placement(
                                [S1 EXCEPT !.rm.reward_screen_active = TRUE,
                                           !.rm.last_reward_seen = 0], bounds)
                  IN  IF rewards.timer >= TimerThreshold \/ S2.rm.current_rewards = <<>>
                      THEN check_rewards(S2, rewards)
                      ELSE check_selected(S2, selected)

InitModule ==
    /\ game = [screen |-> FALSE, timer |-> 0]
    /\ chan = <<>>
    /\ cfg \in [overlay_enabled : BOOLEAN]
    /\ rm = NewRelicReward
    /\ next_pol = 0
    /\ added = 0
    /\ IdleView /\ IdleText /\ IdlePipe /\ IdleParse /\ IdleBuf /\ IdleEff /\ IdleApp /\ IdlePol /\ IdleTimed /\ IdleSave /\ IdleOverlay

ModFrame == UNCHANGED <<viewVars, textVars, pipeVars, parseVars, bufVars, effVars, appVars, polVars, timedVars, saveVars, overlayVars>>

\* RelicReward::tick: the event-driven path, then the automatic one
RmTick ==
    LET ev == IF chan = <<>> THEN NoCapture ELSE Head(chan)
        S0 == [rm |-> rm, next_pol |-> next_pol, added |-> added]
    IN  \E rewards1 \in (IF chan = <<>> THEN {Unread} ELSE Detections(ev)),
           selected1 \in (IF chan = <<>> THEN {0} ELSE Selections),
           bounds \in (IF chan = <<>> /\ ~cfg.overlay_enabled THEN {FALSE} ELSE BOOLEAN) :
          LET S1 == EventPath(S0, ev, rewards1, selected1, bounds)
              captures == cfg.overlay_enabled /\ S1.rm.next_auto_check = 0
          IN  \E cap \in (IF captures THEN {NoCapture, game} ELSE {NoCapture}) :
                \E rewards2 \in (IF cap = NoCapture THEN {Unread} ELSE Detections(game)),
                   selected2 \in (IF cap = NoCapture THEN {0} ELSE Selections) :
                  LET S2 == AutoPath(S1, cfg.overlay_enabled, cap, rewards2, selected2, bounds)
                  IN  /\ S2.rm.selected_rewards <= MaxSelected
                      /\ rm' = S2.rm
                      /\ next_pol' = S2.next_pol
                      /\ added' = S2.added
                      /\ chan' = IF chan = <<>> THEN chan ELSE Tail(chan)
                      /\ UNCHANGED <<game, cfg>>
                      /\ ModFrame

\* 250 ms pass
Elapse ==
    /\ rm' = [rm EXCEPT !.last_reward_seen = IF @ = None THEN None ELSE Min(@ + 1, Grace + 1),
                        !.next_auto_check = SatSub(@, 1)]
    /\ next_pol' \in {SatSub(next_pol, 1)} \cup
                     (IF next_pol = PolHorizon THEN {PolHorizon} ELSE {})
    /\ UNCHANGED <<game, chan, cfg, added>>
    /\ ModFrame

\* one round of the poller thread of IePol::new: it waits for next_pol,
\* captures, sends the capture when the party header is that of the reward
\* screen, and schedules the next poll
IePoll ==
    /\ next_pol = 0
    /\ Len(chan) < MaxQueue
    /\ \E captured \in BOOLEAN :
         chan' = IF captured /\ game.screen THEN Append(chan, game) ELSE chan
    /\ next_pol' = Max(next_pol, Min(PolDelay, PolHorizon))
    /\ UNCHANGED <<game, cfg, rm, added>>
    /\ ModFrame

\* the reward screen comes up
Appear ==
    /\ ~game.screen
    /\ game' = [screen |-> TRUE, timer |-> Timers[1]]
    /\ UNCHANGED <<chan, cfg, rm, next_pol, added>>
    /\ ModFrame

\* its countdown goes on
CountDown ==
    /\ game.screen
    /\ \E i \in 1 .. Len(Timers) - 1 :
         /\ game.timer = Timers[i]
         /\ game' = [game EXCEPT !.timer = Timers[i + 1]]
    /\ UNCHANGED <<chan, cfg, rm, next_pol, added>>
    /\ ModFrame

\* the reward screen goes away: what is added from now on belongs to the
\* next appearance
Vanish ==
    /\ game.screen
    /\ game' = [screen |-> FALSE, timer |-> 0]
    /\ added' = 0
    /\ UNCHANGED <<chan, cfg, rm, next_pol>>
    /\ ModFrame

NextModule ==
    \/ RmTick
    \/ Elapse
    \/ IePoll
    \/ Appear
    \/ CountDown
    \/ Vanish

SpecModule == InitModule /\ [][NextModule]_vars

\* C19: while the reward screen is up and until the overlay state is
\* cleared, tick adds a reward to selected_rewards at most once.
C19_AddedAtMostOnce == added <= 1

\* tick keeps being called, once per UI frame, and time passes
SpecModuleFair == SpecModule /\ WF_vars(RmTick) /\ WF_vars(Elapse)

\* the reward screen is not shown and was last seen more than 2 s ago
Stale ==
    /\ ~game.screen
    /\ rm.last_reward_seen # None
    /\ rm.last_reward_seen > Grace

\* the overlay state is cleared
OverlayCleared ==
    /\ ~rm.reward_screen_active
    /\ rm.current_rewards = <<>>
    /\ rm.overlay_placement = "none"
    /\ rm.last_reward_seen = None

\* the reward screen was detected again within the grace period
SeenAgain == rm.last_reward_seen # None /\ rm.last_reward_seen <= Grace

\* C20: once the reward screen is gone and was last seen more than 2 s
\* ago, the overlay state is eventually cleared (unless the screen is
\* detected again first), provided tick keeps being called.
C20_ClearedAfterGrace == Stale ~> (OverlayCleared \/ SeenAgain)

\* C25: after every tick reward_screen_active is true exactly when
\* last_reward_seen is set, and overlay_placement is set only while
\* reward_screen_active is true.
C25_OverlayStateConsistent ==
    /\ rm.reward_screen_active <=> rm.last_reward_seen # None
    /\ rm.overlay_placement # "none" => rm.reward_screen_active

\* a reward had been counted on the reward screen, the screen went away
\* and a tick of the automatic path has just cleared the overlay state
C25_ClearedAfterPlaced ==
    /\ OverlayCleared
    /\ cfg.overlay_enabled
    /\ rm.next_auto_check = AutoCheckEvery
    /\ rm.selected_rewards > 0
    /\ ~game.screen


----------------------------------------------------------------------------
(* The poller of IePol (iepol.rs): the worker thread of IePol::new, step   *)
(* by step, and the callers of IePol::delay_till.  The mutex makes each    *)
(* critical section one step; the capture and the sends happen outside it. *)

MaxNow == 6

\* the poll delays of the configuration: the smallest the settings allow
\* and the default
PolDelays == {2, PolDelay}

\* the delays check_rewards and check_selected ask for
DelayTills == {Second, SelectedDelay}

\* a rescheduling that overwrites the schedule
RescheduleAlways(next, candidate) == candidate

\* if candidate > *next { *next = candidate; }
Reschedule(next, candidate) == IF candidate > next THEN candidate ELSE next

InitPoller ==
    /\ instant = 0
    /\ sched = 0
    /\ wpc = "wait"
    /\ cand = None
    /\ deadline = None
    /\ polled = {}
    /\ IdleView /\ IdleText /\ IdlePipe /\ IdleParse /\ IdleBuf /\ IdleEff /\ IdleApp /\ IdleMod /\ IdleTimed /\ IdleSave /\ IdleOverlay

PolFrame == UNCHANGED <<viewVars, textVars, pipeVars, parseVars, bufVars, effVars, appVars, modVars, timedVars, saveVars, overlayVars>>

\* time passes
PassTime ==
    /\ instant < MaxNow
    /\ instant' = instant + 1
    /\ UNCHANGED <<sched, wpc, cand, deadline, polled>>
    /\ PolFrame

\* step 1 of the loop: under the lock the worker finds *next <= now and
\* leaves the wait
WorkerWakes ==
    /\ wpc = "wait"
    /\ sched <= instant
    /\ wpc' = "capture"
    /\ UNCHANGED <<instant, sched, cand, deadline, polled>>
    /\ PolFrame

\* step 2: crate::capture::capture(), without the lock
WorkerCaptures ==
    /\ wpc = "capture"
    /\ polled' = polled \cup {[what |-> "capture", at |-> instant]}
    /\ \E captured \in BOOLEAN : wpc' = IF captured THEN "send" ELSE "candidate"
    /\ UNCHANGED <<instant, sched, cand, deadline>>
    /\ PolFrame

\* step 2, the loop over the watchers: tx.send(image.clone())
WorkerSends ==
    /\ wpc = "send"
    /\ \E matches \in BOOLEAN :
         polled' = IF matches THEN polled \cup {[what |-> "send", at |-> instant]}
                   ELSE polled
    /\ wpc' = "candidate"
    /\ UNCHANGED <<instant, sched, cand, deadline>>
    /\ PolFrame

\* step 3: candidate = Instant::now() + pol_delay
WorkerCandidate ==
    /\ wpc = "candidate"
    /\ \E pol_delay \in PolDelays : cand' = instant + pol_delay
    /\ wpc' = "commit"
    /\ UNCHANGED <<instant, sched, deadline, polled>>
    /\ PolFrame

\* step 3, under the lock: the schedule is raised to the candidate
WorkerReschedules ==
    /\ wpc = "commit"
    /\ sched' = Reschedule(sched, cand)
    /\ wpc' = "wait"
    /\ UNCHANGED <<instant, cand, deadline, polled>>
    /\ PolFrame

\* IePol::delay_till(now + d), called from the UI thread, returns
DelayTill ==
    /\ \E d \in DelayTills :
         /\ sched' = IF instant + d > sched THEN instant + d ELSE sched
         /\ deadline' = Max(deadline, instant + d)
    /\ UNCHANGED <<instant, wpc, cand, polled>>
    /\ PolFrame

NextPoller ==
    \/ PassTime
    \/ WorkerWakes
    \/ WorkerCaptures
    \/ WorkerSends
    \/ WorkerCandidate
    \/ WorkerReschedules
    \/ DelayTill

SpecPoller == InitPoller /\ [][NextPoller]_vars

\* C21: once delay_till(t) has returned, the worker starts no capture and
\* sends no image before t.
C21_NoPollBeforeDeadline ==
    [][polled' # polled => ~(deadline # None /\ instant < deadline)]_vars

\* C22: the scheduled instant of the next poll never moves back.
C22_ScheduleNeverMovesBack == [][sched' >= sched]_vars

\* the worker has rescheduled with a candidate that lies before the
\* deadline a delay_till had set, and the deadline is still the schedule
C22_DeadlineOutlivesReschedule ==
    /\ wpc = "wait"
    /\ cand # None
    /\ cand < sched
    /\ sched = deadline
    /\ polled # {}

----------------------------------------------------------------------------
(* The tick-driven polling of the application on a time line of 50 ms     *)
(* units: Message::Tick arrives every 250 ms, a poll task ends at one of   *)
(* these instants, before or after the Tick, and the poll delay is what    *)
(* PollDelayChanged stored.                                                *)

MaxClock == 65

\* iced::time::every(Duration::from_millis(250))
TickEvery == 5

\* Duration::from_millis(350)
TimedPollEvery == 7

\* Duration::from_secs(3)
TimedModeFor == 60

\* Duration::from_secs(60)
TimedLongAgo == 1200

\* 0.1 s and 60.0 s, the limits of parsed.clamp(0.1, 60.0)
MinDelay == 2
MaxDelay == 1200

\* the delays typed into the settings, before the clamp
TypedDelays == {0, 2, 6, 20, 2000}

\* Message::PollDelayChanged(v): parsed.clamp(0.1, 60.0)
Clamp(v) == Max(MinDelay, Min(v, MaxDelay))

InitTimed ==
    /\ clock = 0
    /\ poll = [NewPollState(0) EXCEPT !.last_party_poll = 0 - TimedLongAgo]
    /\ tasks = [party |-> 0, relic |-> 0]
    /\ relic = [rewards |-> "none", selected |-> None, last_updated |-> None]
    /\ status = "none"
    /\ poll_delay \in {Clamp(v) : v \in TypedDelays}
    /\ ticked = FALSE
    /\ pending = None
    /\ IdleView /\ IdleText /\ IdlePipe /\ IdleParse /\ IdleBuf /\ IdleEff /\ IdleMod /\ IdlePol /\ IdleSave /\ IdleOverlay

TimedFrame == UNCHANGED <<viewVars, textVars, pipeVars, parseVars, bufVars, effVars, modVars, polVars, saveVars, overlayVars>>

\* 250 ms pass, once the Tick of this instant has been delivered
TimedAdvance ==
    /\ clock + TickEvery <= MaxClock
    /\ ticked
    /\ clock' = clock + TickEvery
    /\ ticked' = FALSE
    /\ UNCHANGED <<poll, tasks, relic, status, poll_delay, pending>>
    /\ TimedFrame

\* Message::Tick(now), every 250 ms
TimedTick ==
    /\ ~ticked
    /\ ticked' = TRUE
    /\ LET r == on_tick_at(poll, tasks, clock, Max(poll_delay, MinDelay), TimedPollEvery)
       IN  /\ poll' = r.poll
           /\ tasks' = r.tasks
           /\ pending' = IF r.tasks.relic > tasks.relic THEN None ELSE pending
    /\ UNCHANGED <<clock, relic, status, poll_delay>>
    /\ TimedFrame

\* Message::PartyHeaderPolled(res), sent by a party-header task that ended
TimedPartyHeaderPolled ==
    /\ tasks.party > 0
    /\ tasks' = [tasks EXCEPT !.party = @ - 1]
    /\ \E res \in {"some", "none", "err"} :
         /\ poll' = IF res = "some"
                    THEN [poll EXCEPT !.party_in_flight = FALSE,
                                      !.reward_mode_until = clock + TimedModeFor,
                                      !.next_reward_poll = clock]
                    ELSE [poll EXCEPT !.party_in_flight = FALSE]
         /\ status' = IF res = "some" THEN "party header"
                      ELSE IF res = "none" THEN "party header none"
                      ELSE "party header poll failed"
         /\ pending' = IF res = "some" /\ pending = None THEN clock ELSE pending
    /\ UNCHANGED <<clock, relic, poll_delay, ticked>>
    /\ TimedFrame

\* Message::RelicPolled(res), sent by a relic task that ended
TimedRelicPolled ==
    /\ tasks.relic > 0
    /\ tasks' = [tasks EXCEPT !.relic = @ - 1]
    /\ \E res \in {"ok", "err"} :
         /\ poll' = relic_polled(poll, relic, res, 0, clock).poll
         /\ relic' = relic_polled(poll, relic, res, 0, clock).relic
         /\ status' = IF res = "ok" THEN status ELSE "relic poll failed"
    /\ UNCHANGED <<clock, poll_delay, ticked, pending>>
    /\ TimedFrame

NextTimed ==
    \/ TimedAdvance
    \/ TimedTick
    \/ TimedPartyHeaderPolled
    \/ TimedRelicPolled

SpecTimed == InitTimed /\ [][NextTimed]_vars

\* C23: once reward mode is entered at t, a relic poll is started by
\* t + 3 s, whatever the poll delay.
C23_RelicPollInRewardMode == pending # None => clock <= pending + TimedModeFor

----------------------------------------------------------------------------
(* Config::save (config.rs) and Data::save_cache (data/src/lib.rs): the    *)
(* new content is written to a temporary file that is then renamed over    *)
(* the target.  A file is [v, bytes]: the version of the content and how   *)
(* much of it is on disk; every file-system call may fail.                 *)

MaxSaves == 2
MaxBytes == 2

\* no such file
Absent == [v |-> None, bytes |-> 0]

\* the whole content of version v
Whole(v) == [v |-> v, bytes |-> MaxBytes]

InitSave ==
    /\ fs \in [target : {Absent, Whole(0)}, tmp : {Absent}]
    /\ save = [pc |-> "idle", which |-> "none", n |-> 0, prev |-> Absent]
    /\ IdleView /\ IdleText /\ IdlePipe /\ IdleParse /\ IdleBuf /\ IdleEff /\ IdleApp /\ IdleMod /\ IdlePol /\ IdleTimed /\ IdleOverlay

SaveFrame == UNCHANGED <<viewVars, textVars, pipeVars, parseVars, bufVars, effVars, appVars, modVars, polVars, timedVars, overlayVars>>

\* Config::save or Data::save_cache is called
SaveBegins ==
    /\ save.pc = "idle"
    /\ save.n < MaxSaves
    /\ \E which \in {"Config::save", "Data::save_cache"} :
         save' = [pc |-> "create_dir_all", which |-> which, n |-> save.n + 1,
                  prev |-> fs.target]
    /\ UNCHANGED fs
    /\ SaveFrame

\* config_dir() / cache_path() and std::fs::create_dir_all
CreateDirAll ==
    /\ save.pc = "create_dir_all"
    /\ \E ok \in BOOLEAN :
         save' = [save EXCEPT !.pc = IF ok THEN "create" ELSE "returned"]
    /\ UNCHANGED fs
    /\ SaveFrame

\* File::create(&tmp_path): the temporary file is created or truncated
CreateTmp ==
    /\ save.pc = "create"
    /\ \E ok \in BOOLEAN :
         /\ fs' = IF ok THEN [fs EXCEPT !.tmp = [v |-> save.n, bytes |-> 0]] ELSE fs
         /\ save' = [save EXCEPT !.pc = IF ok THEN "to_writer" ELSE "returned"]
    /\ SaveFrame

\* serde_json::to_writer(&mut writer, self): some of the content may reach
\* the file, the rest stays in the BufWriter
ToWriter ==
    /\ save.pc = "to_writer"
    /\ \E ok \in BOOLEAN, k \in 0 .. MaxBytes :
         /\ fs' = [fs EXCEPT !.tmp.bytes = k]
         /\ save' = [save EXCEPT !.pc = IF ok THEN "flush" ELSE "returned"]
    /\ SaveFrame

\* writer.flush()
Flush ==
    /\ save.pc = "flush"
    /\ \E ok \in BOOLEAN, k \in fs.tmp.bytes .. MaxBytes :
         /\ fs' = [fs EXCEPT !.tmp.bytes = IF ok THEN MaxBytes ELSE k]
         /\ save' = [save EXCEPT !.pc = IF ok THEN "rename" ELSE "returned"]
    /\ SaveFrame

\* std::fs::rename(&tmp_path, &config_path)
Rename ==
    /\ save.pc = "rename"
    /\ \E ok \in BOOLEAN :
         /\ fs' = IF ok THEN [target |-> fs.tmp, tmp |-> Absent] ELSE fs
         /\ save' = [save EXCEPT !.pc = IF ok THEN "returned" ELSE "remove_file"]
    /\ SaveFrame

\* let _ = std::fs::remove_file(&config_path)
RemoveFile ==
    /\ save.pc = "remove_file"
    /\ \E ok \in BOOLEAN :
         fs' = IF ok THEN [fs EXCEPT !.target = Absent] ELSE fs
    /\ save' = [save EXCEPT !.pc = "rename_again"]
    /\ SaveFrame

\* the second std::fs::rename(&tmp_path, &config_path)
RenameAgain ==
    /\ save.pc = "rename_again"
    /\ \E ok \in BOOLEAN :
         fs' = IF ok THEN [target |-> fs.tmp, tmp |-> Absent] ELSE fs
    /\ save' = [save EXCEPT !.pc = "returned"]
    /\ SaveFrame

\* the caller goes on
SaveReturns ==
    /\ save.pc = "returned"
    /\ save' = [save EXCEPT !.pc = "idle"]
    /\ UNCHANGED fs
    /\ SaveFrame

NextSave ==
    \/ SaveBegins
    \/ CreateDirAll
    \/ CreateTmp
    \/ ToWriter
    \/ Flush
    \/ Rename
    \/ RemoveFile
    \/ RenameAgain
    \/ SaveReturns

SpecSave == InitSave /\ [][NextSave]_vars

\* C26: when a save has returned, a target that existed before holds the
\* whole previous content or the whole new content.
C26_TargetOldOrNew ==
    save.pc = "returned" /\ save.prev # Absent =>
        fs.target = save.prev \/ fs.target = Whole(save.n)

----------------------------------------------------------------------------
(* The overlay following the game window (ui/mod.rs,                       *)
(* show_overlay_viewport).  Lengths are integers chosen so that every      *)
(* division of the code is exact; overlay_y_ratio is given in quarters.    *)

MaxRect == 16

\* the lengths the inputs are drawn from
Lengths == {n \in 0 .. MaxRect : n % 8 = 0}

\* f32::clamp(self, min, max): panics when min > max
clamp(v, lo, hi) == IF lo > hi THEN Poison ELSE Max(lo, Min(v, hi))

\* the block under `if cfg.overlay_follow_game_window`: [call, panicked, px, py]
follow(g) ==
    LET x == g.x \div g.ppp
        y == g.y \div g.ppp
        w == g.w \div g.ppp
        h == g.h \div g.ppp
        margin == g.margin_px \div g.ppp
        px == clamp(x + (w - g.overlay_w) \div 2, x + margin, x + w - g.overlay_w - margin)
        py == clamp(y + (h * g.y_quarters) \div 4 - g.overlay_h \div 2,
                    y + margin, y + h - g.overlay_h - margin)
    IN  IF px = Poison THEN [call |-> "follow", panicked |-> TRUE, px |-> 0, py |-> 0]
        ELSE IF py = Poison THEN [call |-> "follow", panicked |-> TRUE, px |-> px, py |-> 0]
        ELSE [call |-> "follow", panicked |-> FALSE, px |-> px, py |-> py]

InitOverlay ==
    /\ geom \in [x : Lengths, y : Lengths, w : Lengths, h : Lengths,
                 overlay_w : {4}, overlay_h : {2},
                 margin_px : {0, 2}, y_quarters : {1, 3}, ppp : {1, 2}]
    /\ posn = [call |-> "none", panicked |-> FALSE, px |-> 0, py |-> 0]
    /\ IdleView /\ IdleText /\ IdlePipe /\ IdleParse /\ IdleBuf /\ IdleEff /\ IdleApp /\ IdleMod /\ IdlePol /\ IdleTimed /\ IdleSave

\* the deferred viewport callback runs with the overlay following the window
Follow ==
    /\ posn.call = "none"
    /\ posn' = follow(geom)
    /\ UNCHANGED <<geom, viewVars, textVars, pipeVars, parseVars, bufVars, effVars, appVars, modVars, polVars, timedVars, saveVars>>

NextOverlay == Follow

SpecOverlay == InitOverlay /\ [][NextOverlay]_vars

\* C27: for every game window the placement does not panic and puts the
\* overlay inside the window, the margin kept on every side.
C27_OverlayInsideWindow ==
    posn.call = "follow" =>
        LET x == geom.x \div geom.ppp
            y == geom.y \div geom.ppp
            w == geom.w \div geom.ppp
            h == geom.h \div geom.ppp
            margin == geom.margin_px \div geom.ppp
        IN  /\ ~posn.panicked
            /\ x + margin <= posn.px /\ posn.px <= x + w - geom.overlay_w - margin
            /\ y + margin <= posn.py /\ posn.py <= y + h - geom.overlay_h - margin

----------------------------------------------------------------------------
(* Properties of the pipeline.                                             *)

ZeroSize == capture.width = 0 \/ capture.height = 0

\* C2: on a capture whose width or height is zero, get_rewards,
\* get_selected and Theme::from_options return their empty result (no
\* rewards and timer 0, no selection) and do not panic.
C2_ZeroSizeIsNeutral ==
    ZeroSize /\ out.call # "none" =>
        /\ ~out.panicked
        /\ out.call = "get_rewards" => out.value = [timer |-> 0, rewards |-> <<>>]
        /\ out.call = "get_selected" => out.value = None

\* the deviation from theme.secondary of the corner patch of each slot of
\* the last call whose patch is sampled
Devs ==
    LET im == as_image(capture)
        sampled == {i \in 1 .. Len(out.slots) : ~Patch(im, out.slots[i]).skipped}
    IN  [i \in sampled |-> PatchDeviation(capture, im, out.theme, out.slots[i])]

Closest(devs) == {i \in DOMAIN devs : \A j \in DOMAIN devs : devs[i] <= devs[j]}

Earliest(S) == CHOOSE i \in S : \A j \in S : i <= j

\* C3 as stated: for a non-empty set of slots get_selected returns the
\* index of the earliest slot of minimum deviation, whatever that minimum.
C3_ClosestAlwaysSelected ==
    out.call = "get_selected" /\ out.slots # <<>> =>
        LET devs == Devs
        IN  /\ Closest(devs) # {}
            /\ out.value = Earliest(Closest(devs)) - 1

\* C3, amended: get_selected returns the index of the earliest slot of
\* minimum deviation when that minimum is below 12.0, and None when it is
\* not or when no slot was sampled.
C3_ClosestSelectedBelowCeiling ==
    out.call = "get_selected" =>
        LET devs == Devs
        IN  IF \E i \in Closest(devs) : devs[i] <= SelectedCeiling
            THEN out.value = Earliest(Closest(devs)) - 1
            ELSE out.value = None

\* two later slots tie at the minimum deviation and the earlier one is
\* returned, while another slot lies above the ceiling
C3_TiedSlotsEarlierSelected ==
    /\ out.call = "get_selected"
    /\ out.value >= 1
    /\ LET devs == Devs
       IN  /\ \E j \in DOMAIN devs : j > out.value + 1 /\ devs[j] = devs[out.value + 1]
           /\ \E k \in DOMAIN devs : devs[k] > SelectedCeiling

Detects == out.call \in {"get_rewards", "get_selected"}

\* C6: detect_reward_slots never reports more than 4 slots.
C6_AtMostFourSlots == Detects => Len(out.slots) <= 4

\* the candidate rows of the last call: the hits of a row are its rects, its
\* card count the slots it yields
OutRects == CandidateRects(as_image(capture), out.contours)

OutRows == {RowKey(as_image(capture), OutRects[i]) : i \in 1 .. Len(OutRects)}

Hits(k) == Len(Bucket(as_image(capture), OutRects, k))

Cards(k) == Dedup(<<>>, SortByX(Bucket(as_image(capture), OutRects, k)))

C8_NoEmptyName ==
    out.call = "get_rewards" =>
        \A i \in 1 .. Len(out.value.rewards) : out.value.rewards[i].name # <<>>

=============================================================================
